---- MODULE Spec2Model ----
(***************************************************************************)
(* Trade-history ingestion pipeline of aiTradeReports: broker parsers, the *)
(* Binance fill aggregator, the canonical Trade / TradeCollection model    *)
(* and the backend statistics engine.                                      *)
(*                                                                         *)
(* Conventions of the model                                                *)
(*  - Optional[x] is <<>> (None) or <<v>>.                                 *)
(*  - A Decimal is an integer number of ticks (the smallest decimal unit   *)
(*    the context can hold); +, - and * by a whole quantity are exact,     *)
(*    Decimal division rounds half-even to a tick (DecDiv).                *)
(*  - A datetime is an integer number of seconds; At(d,h,m,s) builds one.  *)
(*  - A string that the code inspects character by character is a sequence *)
(*    of one-character strings.                                            *)
(***************************************************************************)
EXTENDS Integers, Sequences, FiniteSets, TLC

VARIABLES
    parser,      \* the parser instance: [broker, account_id, aggregate_fills,
                 \* _pending_trades]
    file,        \* the rows of the CSV file handed to the parser
    result,      \* Optional[ParserResult] of the last parse
    fills,       \* the list of trades handed to BinanceParser._aggregate_fills
    aggregated,  \* Optional[list]: what _aggregate_fills returned
    collection,  \* TradeCollection.trades
    summary,     \* Optional: the serialised TradeCollection (computed fields)
    dbTrades,    \* the rows of the backend's trades table (one user)
    stats,       \* Optional[TradeStats]: the last get_statistics response
    call,        \* Optional: the last call of a function of the parsers' API,
                 \* [fn, arg, ret]
    tagged,      \* Optional: the tags of one Trade with the last operation on
                 \* them, [tags, op, tag]
    served       \* the parses the parser instance has served, in order:
                 \* [self (the instance before the parse), df, result]

vars == <<parser, file, result, fills, aggregated, collection, summary, dbTrades, stats, call, tagged, served>>

(* --------------------------- bounds ----------------------------------- *)
MaxTrades == 3

MaxFills == 3

MaxRows == 3

(* --------------------------- generic helpers -------------------------- *)
None == <<>>

Some(v) == <<v>>

\* Python truthiness of an Optional[Decimal]: None and Decimal(0) are falsy.
Truthy(o) == o # None /\ o[1] # 0

Abs(x) == IF x < 0 THEN -x ELSE x

At(d, h, m, s) == ((d * 24 + h) * 60 + m) * 60 + s

date(t) == t \div (24 * 60 * 60)

\* sorted(s, key=Key): Python's sort is stable.
StableSort(s, Key(_)) ==
    LET n == Len(s)
        Rank(i) == Cardinality({j \in 1..n :
                        \/ Key(s[j]) < Key(s[i])
                        \/ (Key(s[j]) = Key(s[i]) /\ j < i)}) + 1
    IN [p \in 1..n |-> s[CHOOSE i \in 1..n : Rank(i) = p]]

\* sorted(S) of a set of integers.
SortedSet(S) ==
    LET Rank(x) == Cardinality({y \in S : y < x}) + 1
    IN [p \in 1..Cardinality(S) |-> CHOOSE x \in S : Rank(x) = p]

RECURSIVE SumSeq(_)
SumSeq(s) == IF s = <<>> THEN 0 ELSE Head(s) + SumSeq(Tail(s))

\* [F(s[i]) for i in order]
MapAt(s, F(_), order) == [k \in 1..Len(order) |-> F(s[order[k]])]

\* [F(x) for x in s if P(x)]
SelectMap(s, P(_), F(_)) == MapAt(s, F, SortedSet({i \in 1..Len(s) : P(s[i])}))

Filter(s, P(_)) == SelectMap(s, P, LAMBDA x : x)

\* Decimal division a / b (b > 0), rounded half-even to a tick.
DecDiv(a, b) ==
    LET q == a \div b
        r == a % b
    IN IF 2 * r < b THEN q
       ELSE IF 2 * r > b THEN q + 1
       ELSE IF q % 2 = 0 THEN q ELSE q + 1

(* --------------------------- strings ---------------------------------- *)
LowerChars == <<"a","b","c","d","e","f","g","h","i","j","k","l","m",
                "n","o","p","q","r","s","t","u","v","w","x","y","z">>

UpperChars == <<"A","B","C","D","E","F","G","H","I","J","K","L","M",
                "N","O","P","Q","R","S","T","U","V","W","X","Y","Z">>

Digits == {"0","1","2","3","4","5","6","7","8","9"}

Range(s) == {s[i] : i \in DOMAIN s}

UpperChar(c) ==
    IF c \in Range(LowerChars)
    THEN UpperChars[CHOOSE i \in DOMAIN LowerChars : LowerChars[i] = c]
    ELSE c

\* str.upper()
Upper(str) == [i \in 1..Len(str) |-> UpperChar(str[i])]

\* s[lo..hi] for the least and the greatest index of a non-empty index set.
Span(str, keep) ==
    IF keep = {} THEN <<>>
    ELSE SubSeq(str, CHOOSE i \in keep : \A j \in keep : i <= j,
                     CHOOSE i \in keep : \A j \in keep : j <= i)

\* str.strip(): drops the leading and trailing blanks.
Strip(str) == Span(str, {i \in 1..Len(str) : str[i] # " "})

(* --------------------------- src/models/trade.py ---------------------- *)
\* field_validator("symbol")
normalize_symbol(v) == Upper(Strip(v))

\* Field constraints of the pydantic model Trade (a violation raises).
TradeValid(f) ==
    /\ f.symbol # <<>>
    /\ f.entry_price > 0
    /\ (IF f.exit_price = None THEN TRUE ELSE f.exit_price[1] > 0)
    /\ f.quantity > 0

\* Trade(**f): the validated model instance.
NewTrade(f) == [f EXCEPT !.symbol = normalize_symbol(f.symbol)]

\* Variant of pnl_gross that ignores the direction; C10 must tell it apart.
pnl_gross_unsigned(t) ==
    IF t.override_pnl # None THEN t.override_pnl
    ELSE IF t.exit_price = None THEN None
    ELSE Some((t.exit_price[1] - t.entry_price) * t.quantity)

pnl_gross(t) ==
    IF t.override_pnl # None THEN t.override_pnl
    ELSE IF t.exit_price = None THEN None
    ELSE IF t.direction = "long"
         THEN Some((t.exit_price[1] - t.entry_price) * t.quantity)
         ELSE Some((t.entry_price - t.exit_price[1]) * t.quantity)

pnl_net(t) ==
    IF pnl_gross(t) = None THEN None
    ELSE Some(pnl_gross(t)[1] - t.commission)

is_winner(t) ==
    IF pnl_net(t) = None THEN None
    ELSE Some(pnl_net(t)[1] > 0)

\* A float (or None, or float("inf")) kept as the exact quotient num / den.
NoRatio == [kind |-> "none", num |-> 0, den |-> 1]

InfRatio == [kind |-> "inf", num |-> 1, den |-> 0]

Ratio(n, d) == [kind |-> "value", num |-> n, den |-> d]

winning_trades(trades) == Len(Filter(trades, LAMBDA t : is_winner(t) = Some(TRUE)))

losing_trades(trades) == Len(Filter(trades, LAMBDA t : is_winner(t) = Some(FALSE)))

win_rate(trades) ==
    LET closed == winning_trades(trades) + losing_trades(trades)
    IN IF closed = 0 THEN NoRatio
       ELSE Ratio(winning_trades(trades) * 100, closed)

total_pnl(trades) ==
    SumSeq(SelectMap(trades, LAMBDA t : TRUE,
                     LAMBDA t : IF Truthy(pnl_net(t)) THEN pnl_net(t)[1] ELSE 0))

\* Variant of profit_factor that is None whenever there is no loss; C9 must
\* tell it apart.
profit_factor_undefined(trades) ==
    LET gross_profit == SumSeq(SelectMap(trades,
                            LAMBDA t : Truthy(pnl_net(t)) /\ pnl_net(t)[1] > 0,
                            LAMBDA t : pnl_net(t)[1]))
        gross_loss == Abs(SumSeq(SelectMap(trades,
                            LAMBDA t : Truthy(pnl_net(t)) /\ pnl_net(t)[1] < 0,
                            LAMBDA t : pnl_net(t)[1])))
    IN IF gross_loss = 0 THEN NoRatio ELSE Ratio(gross_profit, gross_loss)

profit_factor(trades) ==
    LET gross_profit == SumSeq(SelectMap(trades,
                            LAMBDA t : Truthy(pnl_net(t)) /\ pnl_net(t)[1] > 0,
                            LAMBDA t : pnl_net(t)[1]))
        gross_loss == Abs(SumSeq(SelectMap(trades,
                            LAMBDA t : Truthy(pnl_net(t)) /\ pnl_net(t)[1] < 0,
                            LAMBDA t : pnl_net(t)[1])))
    IN IF gross_loss = 0
       THEN (IF gross_profit = 0 THEN NoRatio ELSE InfRatio)
       ELSE Ratio(gross_profit, gross_loss)

\* model_dump of one Trade: its fields plus its computed fields.
TradeDump(t) ==
    [trade |-> t, pnl_gross |-> pnl_gross(t), pnl_net |-> pnl_net(t),
     is_winner |-> is_winner(t)]

\* TradeCollection.to_json: model_dump_json serialises the computed fields.
to_json(trades) ==
    [trades |-> [i \in 1..Len(trades) |-> TradeDump(trades[i])],
     total_trades |-> Len(trades),
     winning_trades |-> winning_trades(trades),
     losing_trades |-> losing_trades(trades),
     win_rate |-> win_rate(trades),
     total_pnl |-> total_pnl(trades),
     profit_factor |-> profit_factor(trades)]

(* --------------------------- backend/app/models/trade.py -------------- *)
\* Trade.calculate_pnl of the database model: stores pnl_gross and pnl_net.
calculate_pnl(t) ==
    IF t.exit_price = None THEN t
    ELSE LET g == IF t.direction = "long"
                  THEN (t.exit_price[1] - t.entry_price) * t.quantity
                  ELSE (t.entry_price - t.exit_price[1]) * t.quantity
         IN [t EXCEPT !.pnl_gross = Some(g), !.pnl_net = Some(g - t.commission)]

(* --------------------------- backend/app/services/trade_service.py ---- *)
\* TradeService.create_trade: the row that is committed. TradeCreate carries
\* no status, so the column default (closed) applies.
create_trade(trade_data) ==
    LET trade == [status |-> "closed",
                  direction |-> trade_data.direction,
                  entry_time |-> trade_data.entry_time,
                  exit_time |-> trade_data.exit_time,
                  entry_price |-> trade_data.entry_price,
                  exit_price |-> trade_data.exit_price,
                  quantity |-> trade_data.quantity,
                  commission |-> trade_data.commission,
                  pnl_gross |-> None, pnl_net |-> None]
    IN IF Truthy(trade.exit_price) THEN calculate_pnl(trade) ELSE trade

\* key=lambda t: t.exit_time or t.entry_time
CloseKey(t) == IF t.exit_time # None THEN t.exit_time[1] ELSE t.entry_time

RECURSIVE DailyLoop(_, _, _)
DailyLoop(ts, i, daily_data) ==
    IF i > Len(ts) THEN daily_data
    ELSE LET trade == ts[i] IN
         IF trade.exit_time = None \/ ~Truthy(trade.pnl_net)
         THEN DailyLoop(ts, i + 1, daily_data)
         ELSE LET d == date(trade.exit_time[1])
                  old == IF d \in DOMAIN daily_data THEN daily_data[d]
                         ELSE [pnl |-> 0, trades |-> 0, winners |-> 0, losers |-> 0]
                  new == [pnl |-> old.pnl + trade.pnl_net[1],
                          trades |-> old.trades + 1,
                          winners |-> old.winners + (IF trade.pnl_net[1] > 0 THEN 1 ELSE 0),
                          losers |-> old.losers + (IF trade.pnl_net[1] > 0 THEN 0 ELSE 1)]
              IN DailyLoop(ts, i + 1,
                    [x \in (DOMAIN daily_data) \cup {d} |->
                        IF x = d THEN new ELSE daily_data[x]])

\* Variant of CumulativeLoop that reports each day's own P&L as the running
\* total; C7 must tell it apart.
RECURSIVE CumulativeLoop_daily(_, _, _, _)
CumulativeLoop_daily(daily_data, days, n, cumulative) ==
    IF n > Len(days) THEN <<>>
    ELSE LET data == daily_data[days[n]]
         IN <<[date |-> days[n], pnl |-> data.pnl, trades_count |-> data.trades,
               winners |-> data.winners, losers |-> data.losers,
               cumulative_pnl |-> data.pnl]>>
            \o CumulativeLoop_daily(daily_data, days, n + 1, cumulative)

\* The second loop of _calculate_daily_pnl: the running sum over the dates.
RECURSIVE CumulativeLoop(_, _, _, _)
CumulativeLoop(daily_data, days, n, cumulative) ==
    IF n > Len(days) THEN <<>>
    ELSE LET data == daily_data[days[n]]
             c == cumulative + data.pnl
         IN <<[date |-> days[n], pnl |-> data.pnl, trades_count |-> data.trades,
               winners |-> data.winners, losers |-> data.losers,
               cumulative_pnl |-> c]>>
            \o CumulativeLoop(daily_data, days, n + 1, c)

calculate_daily_pnl(trades) ==
    LET daily_data == DailyLoop(StableSort(trades, CloseKey), 1, << >>)
    IN CumulativeLoop(daily_data, SortedSet(DOMAIN daily_data), 1, 0)

RECURSIVE StreakLoop(_, _, _)
StreakLoop(ts, i, st) ==
    IF i > Len(ts) THEN st
    ELSE LET trade == ts[i] IN
         IF ~Truthy(trade.pnl_net) THEN StreakLoop(ts, i + 1, st)
         ELSE IF trade.pnl_net[1] > 0
         THEN LET temp == IF st.temp > 0 THEN st.temp + 1 ELSE 1
              IN StreakLoop(ts, i + 1,
                    [temp |-> temp, current |-> temp,
                     best |-> IF temp > st.best THEN temp ELSE st.best,
                     worst |-> st.worst])
         ELSE LET temp == IF st.temp < 0 THEN st.temp - 1 ELSE -1
              IN StreakLoop(ts, i + 1,
                    [temp |-> temp, current |-> temp,
                     best |-> st.best,
                     worst |-> IF temp < st.worst THEN temp ELSE st.worst])

calculate_streaks(trades) ==
    IF trades = <<>> THEN [current |-> 0, best |-> 0, worst |-> 0]
    ELSE LET st == StreakLoop(StableSort(trades, CloseKey), 1,
                              [temp |-> 0, current |-> 0, best |-> 0, worst |-> 0])
         IN [current |-> st.current, best |-> st.best, worst |-> Abs(st.worst)]

\* datetime.hour
hour(t) == (t \div (60 * 60)) % 24

\* The loop of _calculate_hourly_stats over the trades: a trade without a
\* net P&L, or with a net P&L of zero, is passed over.
RECURSIVE HourlyLoop(_, _, _)
HourlyLoop(ts, i, hourly) ==
    IF i > Len(ts) THEN hourly
    ELSE IF ~Truthy(ts[i].pnl_net) THEN HourlyLoop(ts, i + 1, hourly)
    ELSE HourlyLoop(ts, i + 1,
            [hourly EXCEPT ![hour(ts[i].entry_time)] =
                [trades |-> @.trades + 1,
                 wins |-> @.wins + (IF ts[i].pnl_net[1] > 0 THEN 1 ELSE 0),
                 pnl |-> @.pnl + ts[i].pnl_net[1]]])

\* The entries of the returned list: the hours 0..23 in order, those with
\* trades > 0 only.
HourlyEntries(hourly) ==
    SelectMap([k \in 1..24 |-> [hour |-> k - 1, trades |-> hourly[k - 1].trades,
                                wins |-> hourly[k - 1].wins, pnl |-> hourly[k - 1].pnl,
                                win_rate |-> Ratio(hourly[k - 1].wins * 100, hourly[k - 1].trades)]],
              LAMBDA e : e.trades > 0, LAMBDA e : e)

\* TradeService._calculate_hourly_stats
calculate_hourly_stats(trades) ==
    HourlyEntries(HourlyLoop(trades, 1, [h \in 0..23 |-> [trades |-> 0, wins |-> 0, pnl |-> 0]]))

get_statistics(trades) ==
    IF trades = <<>>
    THEN [total_trades |-> 0, winning_trades |-> 0, losing_trades |-> 0,
          open_trades |-> 0, total_pnl |-> 0, gross_profit |-> 0, gross_loss |-> 0,
          win_rate |-> NoRatio, profit_factor |-> NoRatio, daily_pnl |-> <<>>,
          hourly_stats |-> <<>>,
          current_streak |-> 0, best_streak |-> 0, worst_streak |-> 0]
    ELSE
    LET closed_trades == Filter(trades, LAMBDA t : t.status = "closed")
        open_trades == Filter(trades, LAMBDA t : t.status = "open")
        winners == Filter(closed_trades, LAMBDA t : Truthy(t.pnl_net) /\ t.pnl_net[1] > 0)
        losers == Filter(closed_trades, LAMBDA t : Truthy(t.pnl_net) /\ t.pnl_net[1] < 0)
        gross_profit == SumSeq([i \in 1..Len(winners) |-> winners[i].pnl_net[1]])
        gross_loss == Abs(SumSeq([i \in 1..Len(losers) |-> losers[i].pnl_net[1]]))
        streaks == calculate_streaks(closed_trades)
    IN [total_trades |-> Len(trades),
        winning_trades |-> Len(winners),
        losing_trades |-> Len(losers),
        open_trades |-> Len(open_trades),
        total_pnl |-> SumSeq([i \in 1..Len(closed_trades) |->
                        IF Truthy(closed_trades[i].pnl_net)
                        THEN closed_trades[i].pnl_net[1] ELSE 0]),
        gross_profit |-> gross_profit,
        gross_loss |-> gross_loss,
        win_rate |-> IF closed_trades # <<>>
                     THEN Ratio(Len(winners) * 100, Len(closed_trades))
                     ELSE NoRatio,
        profit_factor |-> IF gross_loss > 0 THEN Ratio(gross_profit, gross_loss)
                          ELSE NoRatio,
        daily_pnl |-> calculate_daily_pnl(closed_trades),
        hourly_stats |-> calculate_hourly_stats(closed_trades),
        current_streak |-> streaks.current,
        best_streak |-> streaks.best,
        worst_streak |-> streaks.worst]

(* --------------------------- backend/app/routers/upload.py ------------ *)
\* The database row upload_file builds from one parsed Trade.
ImportedTrade(parsed_trade) ==
    calculate_pnl([status |-> parsed_trade.status,
                   direction |-> parsed_trade.direction,
                   entry_time |-> parsed_trade.entry_time,
                   exit_time |-> parsed_trade.exit_time,
                   entry_price |-> parsed_trade.entry_price,
                   exit_price |-> parsed_trade.exit_price,
                   quantity |-> parsed_trade.quantity,
                   commission |-> parsed_trade.commission,
                   pnl_gross |-> None, pnl_net |-> None])

(* --------------------------- statistics: inputs ----------------------- *)
TradeTemplate ==
    [symbol |-> <<"E","S">>, direction |-> "long", status |-> "closed",
     entry_time |-> At(0, 9, 0, 0), exit_time |-> Some(At(0, 10, 0, 0)),
     entry_price |-> 2, exit_price |-> Some(4), quantity |-> 2, commission |-> 0,
     override_pnl |-> None, account_id |-> None, broker_name |-> None]

\* Keyword arguments with which Trade(...) is called.
TradeArgs ==
    {[TradeTemplate EXCEPT !.direction = d, !.exit_price = Some(x), !.commission = c] :
        d \in {"long", "short"}, x \in {1, 2, 4}, c \in {0, 1}}
    \cup {[TradeTemplate EXCEPT !.exit_price = Some(1), !.commission = 1,
                                !.override_pnl = Some(1)],
          [TradeTemplate EXCEPT !.direction = "short", !.status = "open",
                                !.exit_time = None, !.exit_price = None,
                                !.override_pnl = Some(-3)],
          [TradeTemplate EXCEPT !.status = "open", !.exit_time = None,
                                !.exit_price = None],
          [TradeTemplate EXCEPT !.exit_time = None, !.exit_price = None],
          [TradeTemplate EXCEPT !.symbol = <<" ","e","s">>, !.entry_price = 0]}

CloseTimes == {At(0, 10, 0, 0), At(0, 11, 0, 0), At(1, 10, 0, 0)}

\* Bodies of POST /trades (TradeCreate).
CreateInputs ==
    {[direction |-> "long", entry_time |-> At(0, 9, 0, 0), exit_time |-> Some(x),
      entry_price |-> 2, exit_price |-> p, quantity |-> 1, commission |-> 0] :
        x \in CloseTimes, p \in {None, Some(1), Some(2), Some(4)}}
    \cup {[direction |-> "long", entry_time |-> At(0, 9, 0, 0), exit_time |-> None,
           entry_price |-> 2, exit_price |-> p, quantity |-> 1, commission |-> 0] :
        p \in {None, Some(4)}}

\* Parsed trades an upload imports.
ImportInputs ==
    {[TradeTemplate EXCEPT !.status = "open", !.exit_time = None, !.exit_price = None],
     [TradeTemplate EXCEPT !.direction = "short", !.exit_time = Some(At(1, 10, 0, 0)),
                           !.exit_price = Some(1), !.quantity = 1],
     [TradeTemplate EXCEPT !.entry_time = At(0, 8, 30, 0), !.exit_price = Some(1)]}

(* --------------------------- state machine ---------------------------- *)
Init ==
    /\ parser = None
    /\ file = <<>>
    /\ result = None
    /\ fills = <<>>
    /\ aggregated = None
    /\ collection = <<>>
    /\ summary = None
    /\ dbTrades = <<>>
    /\ stats = None
    /\ call = None
    /\ tagged = None
    /\ served = <<>>

\* TradeCollection.trades.append(Trade(**f)); a ValidationError adds nothing.
AddTrade(f) ==
    /\ dbTrades = <<>> /\ stats = None
    /\ Len(collection) < MaxTrades
    /\ TradeValid(f)
    /\ collection' = Append(collection, NewTrade(f))
    /\ summary' = None
    /\ UNCHANGED <<served, tagged, call, parser, file, result, fills, aggregated, dbTrades, stats>>

\* TradeCollection.to_json()
Serialize ==
    /\ dbTrades = <<>> /\ stats = None
    /\ summary = None
    /\ summary' = Some(to_json(collection))
    /\ UNCHANGED <<served, tagged, call, parser, file, result, fills, aggregated, collection, dbTrades, stats>>

\* POST /trades -> TradeService.create_trade
CreateTrade(trade_data) ==
    /\ collection = <<>> /\ summary = None
    /\ Len(dbTrades) < MaxTrades
    /\ dbTrades' = Append(dbTrades, create_trade(trade_data))
    /\ stats' = None
    /\ UNCHANGED <<served, tagged, call, parser, file, result, fills, aggregated, collection, summary>>

\* One pass of the import loop of upload_file.
ImportTrade(parsed_trade) ==
    /\ collection = <<>> /\ summary = None
    /\ Len(dbTrades) < MaxTrades
    /\ dbTrades' = Append(dbTrades, ImportedTrade(NewTrade(parsed_trade)))
    /\ stats' = None
    /\ UNCHANGED <<served, tagged, call, parser, file, result, fills, aggregated, collection, summary>>

\* GET /stats -> TradeService.get_statistics
GetStatistics ==
    /\ collection = <<>> /\ summary = None
    /\ stats = None
    /\ stats' = Some(get_statistics(dbTrades))
    /\ UNCHANGED <<served, tagged, call, parser, file, result, fills, aggregated, collection, summary, dbTrades>>

NextStats ==
    \/ \E f \in TradeArgs : AddTrade(f)
    \/ Serialize
    \/ \E d \in CreateInputs : CreateTrade(d)
    \/ \E t \in ImportInputs : ImportTrade(t)
    \/ GetStatistics

SpecStats == Init /\ [][NextStats]_vars

(* --------------------------- statistics: properties ------------------- *)
SetMax(S) == IF S = {} THEN 0 ELSE CHOOSE x \in S : \A y \in S : y <= x

SetMin(S) == CHOOSE x \in S : \A y \in S : x <= y

SumTo(s, F(_), n) == SumSeq([k \in 1..n |-> F(s[k])])

\* Length of the longest block of consecutive elements of s that all satisfy P.
LongestRun(s, P(_)) ==
    SetMax({p[2] - p[1] + 1 : p \in {q \in (1..Len(s)) \X (1..Len(s)) :
                q[1] <= q[2] /\ \A k \in q[1]..q[2] : P(s[k])}})

ClosedRows == Filter(dbTrades, LAMBDA t : t.status = "closed")

RowWins(t) == t.pnl_net # None /\ t.pnl_net[1] > 0

RowLoses(t) == t.pnl_net # None /\ t.pnl_net[1] < 0

\* C6 (as claimed): best_streak is the length of the longest run of
\* consecutive winners among the closed trades in closing-time order, and
\* worst_streak that of the longest run of consecutive losers; a trade that is
\* neither a winner nor a loser ends the run it lies in.
C6_StreakCorrectness ==
    stats # None =>
        LET ordered == StableSort(ClosedRows, CloseKey)
        IN /\ stats[1].best_streak = LongestRun(ordered, RowWins)
           /\ stats[1].worst_streak = LongestRun(ordered, RowLoses)

C8_WinRate ==
    stats # None =>
        LET st == stats[1]
            W == st.winning_trades
            L == st.losing_trades
        IN /\ (st.win_rate.kind = "none") <=> (ClosedRows = <<>>)
           /\ st.win_rate.kind = "value" =>
                st.win_rate.num * (W + L) = 100 * W * st.win_rate.den

\* Gross profit and gross loss of a serialised collection, from its dumped
\* net P&L values.
DumpedNets == SelectMap(summary[1].trades, LAMBDA d : d.pnl_net # None,
                        LAMBDA d : d.pnl_net[1])

DumpedProfit == SumSeq(SelectMap(DumpedNets, LAMBDA x : x > 0, LAMBDA x : x))

DumpedLoss == Abs(SumSeq(SelectMap(DumpedNets, LAMBDA x : x < 0, LAMBDA x : x)))

IsQuotient(r, n, d) == r.kind = "value" /\ r.num * d = n * r.den

\* C9 (as claimed): profit_factor = gross_profit / gross_loss when
\* gross_loss > 0 and None whenever gross_loss = 0, for get_statistics and for
\* TradeCollection.profit_factor alike.
C9_ProfitFactorClaimed ==
    /\ stats # None =>
         IF stats[1].gross_loss > 0
         THEN IsQuotient(stats[1].profit_factor, stats[1].gross_profit, stats[1].gross_loss)
         ELSE stats[1].profit_factor.kind = "none"
    /\ summary # None =>
         IF DumpedLoss > 0
         THEN IsQuotient(summary[1].profit_factor, DumpedProfit, DumpedLoss)
         ELSE summary[1].profit_factor.kind = "none"

\* C9 (amended): as claimed for get_statistics; TradeCollection.profit_factor
\* is None only when gross_loss = 0 and gross_profit = 0, and is float("inf")
\* when gross_loss = 0 and gross_profit > 0.
C9_ProfitFactor ==
    /\ stats # None =>
         IF stats[1].gross_loss > 0
         THEN IsQuotient(stats[1].profit_factor, stats[1].gross_profit, stats[1].gross_loss)
         ELSE stats[1].profit_factor.kind = "none"
    /\ summary # None =>
         IF DumpedLoss > 0
         THEN IsQuotient(summary[1].profit_factor, DumpedProfit, DumpedLoss)
         ELSE IF DumpedProfit > 0
         THEN summary[1].profit_factor.kind = "inf"
         ELSE summary[1].profit_factor.kind = "none"

\* C9 witness: a serialised collection with profits and no loss.
C9_Witness ==
    /\ summary # None
    /\ DumpedLoss = 0
    /\ DumpedProfit > 0
    /\ summary[1].profit_factor.kind = "inf"

\* C10: for a closed trade (one with an exit price) without override_pnl,
\* pnl_gross is (exit - entry) * quantity when long and (entry - exit) *
\* quantity when short; with override_pnl set pnl_gross is the override;
\* pnl_net = pnl_gross - commission exactly; is_winner is true exactly when
\* pnl_net > 0 and undefined exactly when pnl_net is undefined.
C10_PnlLaw ==
    summary # None =>
        \A i \in 1..Len(summary[1].trades) :
            LET d == summary[1].trades[i]
                t == d.trade
            IN /\ (t.override_pnl = None /\ t.exit_price # None /\ t.direction = "long")
                    => d.pnl_gross = Some(t.exit_price[1] * t.quantity
                                          - t.entry_price * t.quantity)
               /\ (t.override_pnl = None /\ t.exit_price # None /\ t.direction = "short")
                    => d.pnl_gross = Some(t.entry_price * t.quantity
                                          - t.exit_price[1] * t.quantity)
               /\ t.override_pnl # None => d.pnl_gross = t.override_pnl
               /\ d.pnl_gross # None
                    => (d.pnl_net # None /\ d.pnl_net[1] + t.commission = d.pnl_gross[1])
               /\ (d.is_winner = None) <=> (d.pnl_net = None)
               /\ (d.is_winner = Some(TRUE)) <=> (d.pnl_net # None /\ d.pnl_net[1] > 0)

\* C10 witness: a serialised collection holding a closed short trade that
\* paid a commission and won, and a trade with override_pnl.
C10_Witness ==
    /\ summary # None
    /\ \E i \in 1..Len(summary[1].trades) :
         LET d == summary[1].trades[i] IN
            /\ d.trade.direction = "short" /\ d.trade.status = "closed"
            /\ d.trade.override_pnl = None /\ d.trade.commission > 0
            /\ d.is_winner = Some(TRUE)
    /\ \E i \in 1..Len(summary[1].trades) :
         summary[1].trades[i].trade.override_pnl # None

(* --------------------------- src/parsers/binance.py ------------------- *)
\* The grouping key f"{symbol}_{direction}_{time_bucket.isoformat()}". The
\* direction and the ISO time contain no underscore, so the string determines
\* the three parts; the key is kept as the triple.
AggKey(trade) ==
    <<trade.symbol, trade.direction, trade.entry_time - (trade.entry_time % 60)>>

\* Variant of weighted_price: the plain mean of the two prices.
weighted_price_plain(existing, trade) ==
    DecDiv(existing.entry_price + trade.entry_price, 2)

\* weighted_price of _aggregate_fills; the Decimal quotient is rounded.
weighted_price(existing, trade) ==
    DecDiv(existing.entry_price * existing.quantity
             + trade.entry_price * trade.quantity,
           existing.quantity + trade.quantity)

\* Variant of MergeFill that dates the merged trade at the fill just merged
\* instead of the first one; C30 must tell it apart.
MergeFill_last_time(existing, trade) ==
    NewTrade([symbol |-> existing.symbol,
              direction |-> existing.direction,
              status |-> existing.status,
              entry_time |-> trade.entry_time,
              exit_time |-> IF existing.status = "closed"
                            THEN Some(trade.entry_time) ELSE None,
              entry_price |-> weighted_price(existing, trade),
              exit_price |-> existing.exit_price,
              quantity |-> existing.quantity + trade.quantity,
              commission |-> existing.commission + trade.commission,
              override_pnl |-> None,
              account_id |-> existing.account_id,
              broker_name |-> existing.broker_name])

\* Variant of MergeFill that keeps the commission of the first fill only.
MergeFill_first_fee(existing, trade) ==
    NewTrade([symbol |-> existing.symbol,
              direction |-> existing.direction,
              status |-> existing.status,
              entry_time |-> existing.entry_time,
              exit_time |-> IF existing.status = "closed"
                            THEN Some(trade.entry_time) ELSE None,
              entry_price |-> weighted_price(existing, trade),
              exit_price |-> existing.exit_price,
              quantity |-> existing.quantity + trade.quantity,
              commission |-> existing.commission,
              override_pnl |-> None,
              account_id |-> existing.account_id,
              broker_name |-> existing.broker_name])

\* The Trade(...) that replaces aggregated[key] when the key is present.
MergeFill(existing, trade) ==
    NewTrade([symbol |-> existing.symbol,
              direction |-> existing.direction,
              status |-> existing.status,
              entry_time |-> existing.entry_time,
              exit_time |-> IF existing.status = "closed"
                            THEN Some(trade.entry_time) ELSE None,
              entry_price |-> weighted_price(existing, trade),
              exit_price |-> existing.exit_price,
              quantity |-> existing.quantity + trade.quantity,
              commission |-> existing.commission + trade.commission,
              override_pnl |-> None,
              account_id |-> existing.account_id,
              broker_name |-> existing.broker_name])

\* The loop of _aggregate_fills. The dict is the sequence of its items in
\* insertion order; assigning to a present key keeps the key's position.
RECURSIVE AggregateLoop(_, _, _)
AggregateLoop(ts, i, agg) ==
    IF i > Len(ts) THEN agg
    ELSE LET trade == ts[i]
             key == AggKey(trade)
             hit == {k \in 1..Len(agg) : agg[k].key = key}
         IN IF hit # {}
            THEN LET k == CHOOSE k \in hit : TRUE
                 IN AggregateLoop(ts, i + 1,
                        [agg EXCEPT ![k] = [key |-> key,
                                            value |-> MergeFill(agg[k].value, trade)]])
            ELSE AggregateLoop(ts, i + 1, Append(agg, [key |-> key, value |-> trade]))

_aggregate_fills(trades) ==
    IF trades = <<>> THEN <<>>
    ELSE LET agg == AggregateLoop(StableSort(trades, LAMBDA t : t.entry_time), 1, <<>>)
         IN [k \in 1..Len(agg) |-> agg[k].value]

(* --------------------------- aggregator: inputs ----------------------- *)
\* Trades handed to _aggregate_fills: open fills as BinanceParser._parse_row
\* builds them, and closed trades whose exit is the fill itself.
FillTemplate ==
    [symbol |-> <<"B","T","C">>, direction |-> "long", status |-> "open",
     entry_time |-> At(0, 10, 1, 0), exit_time |-> None,
     entry_price |-> 10, exit_price |-> None, quantity |-> 1, commission |-> 0,
     override_pnl |-> None, account_id |-> None, broker_name |-> Some("binance")]

FillTimes == {At(0, 10, 0, 59), At(0, 10, 1, 0), At(0, 10, 1, 30)}

FillMarkets == {<<<<"B","T","C">>, "long">>, <<<<"B","T","C">>, "short">>,
                <<<<"E","T","H">>, "long">>}

FillInputs ==
    {[FillTemplate EXCEPT !.symbol = m[1], !.direction = m[2], !.entry_time = t] :
        m \in FillMarkets, t \in FillTimes}
    \cup
    {[FillTemplate EXCEPT !.symbol = m[1], !.direction = m[2], !.entry_time = t,
                          !.status = "closed", !.exit_time = Some(t),
                          !.entry_price = 40, !.exit_price = Some(42),
                          !.quantity = 3, !.commission = 1] :
        m \in FillMarkets, t \in FillTimes}

(* --------------------------- aggregator: state machine ---------------- *)
\* One more trade in the list that will be handed to the aggregator.
AddFill(t) ==
    /\ aggregated = None
    /\ Len(fills) < MaxFills
    /\ fills' = Append(fills, t)
    /\ UNCHANGED <<served, tagged, call, parser, file, result, aggregated, collection, summary, dbTrades, stats>>

\* BinanceParser._aggregate_fills(fills)
Aggregate ==
    /\ aggregated = None
    /\ aggregated' = Some(_aggregate_fills(fills))
    /\ UNCHANGED <<served, tagged, call, parser, file, result, fills, collection, summary, dbTrades, stats>>

NextAgg ==
    \/ \E t \in FillInputs : AddFill(t)
    \/ Aggregate

SpecAgg == Init /\ [][NextAgg]_vars

(* --------------------------- aggregator: properties ------------------- *)
InputKeys == {AggKey(fills[i]) : i \in 1..Len(fills)}

Members(key) == Filter(fills, LAMBDA t : AggKey(t) = key)

\* C4: for every key of the input, an output trade with that key exists, and
\* the quantity and the commission of any output trade with that key are the
\* sums of the quantities and of the commissions of the input trades with it.
C4_Conservation ==
    aggregated # None =>
        \A key \in InputKeys :
            /\ \E k \in 1..Len(aggregated[1]) : AggKey(aggregated[1][k]) = key
            /\ \A k \in 1..Len(aggregated[1]) :
                 AggKey(aggregated[1][k]) = key =>
                    /\ aggregated[1][k].quantity
                         = SumTo(Members(key), LAMBDA t : t.quantity, Len(Members(key)))
                    /\ aggregated[1][k].commission
                         = SumTo(Members(key), LAMBDA t : t.commission, Len(Members(key)))

\* C4 witness: three fills of one key with different quantities and
\* commissions were merged into one trade.
C4_Witness ==
    /\ aggregated # None
    /\ Len(fills) = 3
    /\ Len(aggregated[1]) = 1
    /\ \E i, j \in 1..3 : fills[i].commission # fills[j].commission
    /\ aggregated[1][1].commission > 0

\* C5: the output holds exactly one trade per key of the input and no other
\* trade; for each key the entry_time is the earliest fill time of the key,
\* the status is that of a fill with that earliest time, and the entry_price
\* is the volume-weighted mean of the fill prices, exactly for one fill and
\* within the rounding of one Decimal division (half a tick) per merge
\* otherwise; this for any number of fills in any order.
C5_Result ==
    aggregated # None =>
        LET out == aggregated[1] IN
        /\ Len(out) = Cardinality(InputKeys)
        /\ \A k \in 1..Len(out) :
             LET key == AggKey(out[k])
                 m == Members(key)
                 n == Len(m)
                 first == SetMin({m[i].entry_time : i \in 1..n})
                 Q == SumTo(m, LAMBDA t : t.quantity, n)
                 PQ == SumTo(m, LAMBDA t : t.entry_price * t.quantity, n)
             IN /\ key \in InputKeys
                /\ \A j \in 1..Len(out) : AggKey(out[j]) = key => j = k
                /\ out[k].entry_time = first
                /\ \E i \in 1..n : m[i].entry_time = first /\ m[i].status = out[k].status
                /\ 2 * Abs(out[k].entry_price * Q - PQ) <= (n - 1) * Q

\* C5 witness: two fills of one minute, given later one first and with
\* different prices and sizes, became one trade, and a fill of the same market
\* at 10:00:59 stayed a trade of its own.
C5_Witness ==
    /\ aggregated # None
    /\ Len(fills) = 3
    /\ Len(aggregated[1]) = 2
    /\ fills[1].entry_time = At(0, 10, 1, 30)
    /\ fills[2].entry_time = At(0, 10, 1, 0)
    /\ fills[3].entry_time = At(0, 10, 0, 59)
    /\ fills[1].symbol = fills[2].symbol /\ fills[2].symbol = fills[3].symbol
    /\ fills[1].direction = fills[2].direction /\ fills[2].direction = fills[3].direction
    /\ fills[1].entry_price # fills[2].entry_price
    /\ fills[1].status # fills[2].status

(* --------------------------- text and cells --------------------------- *)
LowerChar(c) ==
    IF c \in Range(UpperChars)
    THEN LowerChars[CHOOSE i \in DOMAIN UpperChars : UpperChars[i] = c]
    ELSE c

\* str.lower()
Lower(str) == [i \in 1..Len(str) |-> LowerChar(str[i])]

\* sub in str
Contains(str, sub) ==
    \E i \in 0..(Len(str) - Len(sub)) : SubSeq(str, i + 1, i + Len(sub)) = sub

\* str.endswith(suffix)
EndsWith(str, suffix) ==
    /\ Len(suffix) <= Len(str)
    /\ SubSeq(str, Len(str) - Len(suffix) + 1, Len(str)) = suffix

\* str with every character of the set removed (chained str.replace(c, "")).
Without(str, cs) == Filter(str, LAMBDA c : c \notin cs)

\* The part of a stripped string before its first blank, given the blanks.
UpTo(s, blanks) == IF blanks = {} THEN s ELSE SubSeq(s, 1, SetMin(blanks) - 1)

\* str.split()[0] of a stripped string that is not empty.
FirstWord(s) == UpTo(s, {i \in 1..Len(s) : s[i] = " "})

DigitValue(c) == CHOOSE d \in 0..9 : <<"0","1","2","3","4","5","6","7","8","9">>[d + 1] = c

RECURSIVE Numeral(_)
Numeral(s) == IF s = <<>> THEN 0 ELSE 10 * Numeral(SubSeq(s, 1, Len(s) - 1)) + DigitValue(s[Len(s)])

\* The outcome of a conversion that may raise ValueError.
Raised == [ok |-> FALSE, v |-> 0]

Returned(v) == [ok |-> TRUE, v |-> v]

Negated(r) == IF r.ok THEN Returned(-r.v) ELSE Raised

Magnitude(r) == IF r.ok THEN Returned(Abs(r.v)) ELSE Raised

ParseDigits(body) ==
    IF body = <<>> \/ \E i \in 1..Len(body) : body[i] \notin Digits THEN Raised
    ELSE Returned(Numeral(body))

ParseSigned(t) ==
    IF t # <<>> /\ t[1] = "-" THEN Negated(ParseDigits(Tail(t))) ELSE ParseDigits(t)

\* float(text) for numerals of whole ticks: an optional sign and digits.
ParseFloat(text) == ParseSigned(Strip(text))

\* A cell of the DataFrame: empty (NaN), a number, a text, or a text in one
\* of the accepted timestamp formats that denotes the time v.
NaN == [kind |-> "nan", v |-> 0, s |-> <<>>]

Num(n) == [kind |-> "num", v |-> n, s |-> <<>>]

Str(s) == [kind |-> "str", v |-> 0, s |-> s]

Time(t) == [kind |-> "time", v |-> t, s |-> <<>>]

isna(c) == c.kind = "nan"

\* str(value) of a cell of a text column.
CellStr(c) == IF isna(c) THEN <<"n","a","n">> ELSE c.s

\* The positions of the column called name.
Positions(columns, name) == {p \in 1..Len(columns) : columns[p] = name}

CellAt(columns, row, names, default, present) ==
    IF present = {} THEN default
    ELSE row[SetMin(Positions(columns, names[SetMin(present)]))]

\* row.get(n1, row.get(n2, ... default)): the cell under the first of the
\* names that is a column, else the default.
RowGet(columns, row, names, default) ==
    CellAt(columns, row, names, default,
           {k \in 1..Len(names) : Positions(columns, names[k]) # {}})

(* --------------------------- src/parsers/base.py ---------------------- *)
\* The mapping entries that rename column p: those whose lower-cased name is
\* the column's and for which p is the first such column.
RenamedBy(COLUMN_MAPPING, columns, p) ==
    {e \in 1..Len(COLUMN_MAPPING) :
        /\ Lower(columns[p]) = Lower(COLUMN_MAPPING[e][1])
        /\ \A q \in 1..(p - 1) : Lower(columns[q]) # Lower(columns[p])}

Renamed(COLUMN_MAPPING, name, hits) ==
    IF hits = {} THEN name ELSE COLUMN_MAPPING[SetMax(hits)][2]

\* BaseParser._apply_column_mapping
_apply_column_mapping(COLUMN_MAPPING, columns) ==
    [p \in 1..Len(columns) |->
        Renamed(COLUMN_MAPPING, columns[p], RenamedBy(COLUMN_MAPPING, columns, p))]

_is_empty_row(row) ==
    \/ \A p \in 1..Len(row) : isna(row[p])
    \/ \A p \in 1..Len(row) : row[p].kind = "str" /\ Strip(row[p].s) = <<>>

\* BaseParser._parse_decimal
_parse_decimal(value) ==
    IF value.kind = "num" THEN Returned(value.v)
    ELSE IF value.kind = "str" THEN ParseFloat(Without(value.s, {",", "$"}))
    ELSE Raised

\* BaseParser._parse_datetime and the parsers' own timestamp readers: a
\* timestamp text yields its time, any other text raises.
_parse_datetime(value) ==
    IF value.kind = "time" THEN Returned(value.v) ELSE Raised

DirectionOf(value_str) ==
    IF \E kw \in {<<"b","u","y">>, <<"l","o","n","g">>, <<"b">>, <<"1">>, <<"c","a","l","l">>} : Contains(value_str, kw)
    THEN Returned("long")
    ELSE IF \E kw \in {<<"s","e","l","l">>, <<"s","h","o","r","t">>, <<"s">>, <<"-","1">>, <<"p","u","t">>, <<"s","s">>} :
                Contains(value_str, kw)
    THEN Returned("short")
    ELSE Raised

\* BaseParser._parse_direction: keyword containment, long keywords first.
_parse_direction(value) ==
    IF isna(value) THEN Raised ELSE DirectionOf(Lower(Strip(CellStr(value))))

\* What _parse_row does with a row: returns a Trade, returns None, or raises
\* (ValueError, or pydantic's ValidationError, which is a ValueError).
Parsed(t) == [tag |-> "trade", trade |-> <<t>>]

Skipped == [tag |-> "none", trade |-> <<>>]

Failed == [tag |-> "error", trade |-> <<>>]

\* Trade(**f) inside _parse_row.
MakeTrade(f) == IF TradeValid(f) THEN Parsed(NewTrade(f)) ELSE Failed

\* The keyword arguments of the parsers' Trade(...) calls for an open trade.
OpenArgs(symbol, direction, entry_time, entry_price, quantity, commission) ==
    [symbol |-> symbol, direction |-> direction, status |-> "open",
     entry_time |-> entry_time, exit_time |-> None,
     entry_price |-> entry_price, exit_price |-> None,
     quantity |-> quantity, commission |-> commission,
     override_pnl |-> None, account_id |-> None, broker_name |-> None]

\* The same for a closed trade.
ClosedArgs(symbol, direction, entry_time, exit_time, entry_price, exit_price, quantity, commission) ==
    [symbol |-> symbol, direction |-> direction, status |-> "closed",
     entry_time |-> entry_time, exit_time |-> Some(exit_time),
     entry_price |-> entry_price, exit_price |-> Some(exit_price),
     quantity |-> quantity, commission |-> commission,
     override_pnl |-> None, account_id |-> None, broker_name |-> None]

\* The entry price solved from the exit price and the realised P&L:
\* price - pnl / quantity when long, price + pnl / quantity when short.
BackSolved(direction, price, pnl, quantity) ==
    IF direction = "long" THEN price - DecDiv(pnl, quantity)
    ELSE price + DecDiv(pnl, quantity)

\* A row with a realised P&L turned into a closed trade, the exit price being
\* a Decimal (TradovateParser: exit_price = Decimal(str(price))).
ClosedRow(symbol, direction, trade_time, price, pnl, quantity, commission) ==
    MakeTrade(ClosedArgs(symbol, direction, trade_time, trade_time,
                         BackSolved(direction, price, pnl, quantity), price,
                         quantity, commission))

OpenRow(symbol, direction, trade_time, price, quantity, commission) ==
    MakeTrade(OpenArgs(symbol, direction, trade_time, price, quantity, commission))

\* price - (Decimal(str(pnl)) / Decimal(str(quantity))), and the same with +,
\* where price is the float that _parse_decimal returned: Python defines no
\* arithmetic between float and Decimal, the expression raises TypeError
\* before any Trade is built, and the row loop records the row as an
\* "Unexpected error".
FloatBackSolvedRow(symbol, direction, trade_time, price, pnl, quantity, commission) == Failed

(* --------------------------- src/parsers/interactive_brokers.py ------- *)
IB_COLUMN_MAPPING ==
    << <<<<"c","o","n","i","d">>, <<"c","o","n","t","r","a","c","t","_","i","d">>>>, <<<<"u","n","d","e","r","l","y","i","n","g","s","y","m","b","o","l">>, <<"s","y","m","b","o","l">>>>,
       <<<<"t","r","a","d","e","p","r","i","c","e">>, <<"p","r","i","c","e">>>>, <<<<"t","r","a","d","e","d","a","t","e">>, <<"d","a","t","e">>>>,
       <<<<"t","r","a","d","e","t","i","m","e">>, <<"t","i","m","e">>>>, <<<<"d","a","t","e","t","i","m","e">>, <<"d","a","t","e","t","i","m","e">>>>,
       <<<<"b","u","y","s","e","l","l">>, <<"d","i","r","e","c","t","i","o","n">>>>, <<<<"i","b","c","o","m","m","i","s","s","i","o","n">>, <<"c","o","m","m","i","s","s","i","o","n">>>>,
       <<<<"i","b","t","r","a","d","e","i","d">>, <<"b","r","o","k","e","r","_","t","r","a","d","e","_","i","d">>>>, <<<<"d","a","t","e","/","t","i","m","e">>, <<"d","a","t","e","t","i","m","e">>>>,
       <<<<"c","o","m","m","/","f","e","e">>, <<"c","o","m","m","i","s","s","i","o","n">>>>, <<<<"t","."," ","p","r","i","c","e">>, <<"p","r","i","c","e">>>>,
       <<<<"r","e","a","l","i","z","e","d"," ","p","/","l">>, <<"p","n","l">>>> >>

LowerNames(columns) == {Lower(columns[p]) : p \in 1..Len(columns)}

IB_missing(df_columns) ==
    (IF df_columns \cap {<<"s","y","m","b","o","l">>, <<"u","n","d","e","r","l","y","i","n","g","s","y","m","b","o","l">>,
                         <<"u","n","d","e","r","l","y","i","n","g"," ","s","y","m","b","o","l">>} = {}
     THEN {"Symbol"} ELSE {})
    \cup (IF df_columns \cap {<<"q","u","a","n","t","i","t","y">>, <<"q","t","y">>} = {} THEN {"Quantity"} ELSE {})

\* InteractiveBrokersParser._check_required_columns: the missing names.
IB_check_required_columns(columns) == IB_missing(LowerNames(columns))

\* The first row "looks like a header": every non-empty value is a string
\* without a digit. A number is no string and a timestamp holds digits.
HeaderLike(row) ==
    \A p \in 1..Len(row) :
        isna(row[p]) \/ (row[p].kind = "str" /\ \A i \in 1..Len(row[p].s) : row[p].s[i] \notin Digits)

\* df[df["Header"] != "Header"] when there is a column Header (at hp).
DropHeaderRows(rows, hp) ==
    IF hp = {} THEN rows ELSE Filter(rows, LAMBDA r : r[SetMin(hp)] # Str(<<"H","e","a","d","e","r">>))

\* df.columns = df.iloc[0]; df = df[1:] when the first row looks like a
\* header. A column labelled by an empty cell has the label <<>>, which no
\* lookup names.
PromoteHeader(columns, rows) ==
    IF rows # <<>> /\ HeaderLike(rows[1])
    THEN [columns |-> [p \in 1..Len(columns) |->
                         IF rows[1][p].kind = "str" THEN rows[1][p].s ELSE <<>>],
          rows |-> Tail(rows)]
    ELSE [columns |-> columns, rows |-> rows]

\* InteractiveBrokersParser._normalize_dataframe
IB_normalize_dataframe(df) ==
    PromoteHeader(df.columns,
                  DropHeaderRows(df.rows, Positions(df.columns, <<"H","e","a","d","e","r">>)))

\* A date and a time of day in two columns are joined into one text, which
\* is read like any other text.
IBDateTime(dt, d, t, td, tt) ==
    IF ~isna(dt) THEN _parse_datetime(dt)
    ELSE IF ~isna(d) /\ ~isna(t)
    THEN _parse_datetime(Str(CellStr(d) \o <<" ">> \o CellStr(t)))
    ELSE IF ~isna(td)
    THEN _parse_datetime(Str(CellStr(td) \o <<" ">> \o CellStr(tt)))
    ELSE Raised

\* InteractiveBrokersParser._parse_ib_datetime
_parse_ib_datetime(columns, row) ==
    IBDateTime(RowGet(columns, row, <<<<"d","a","t","e","t","i","m","e">>>>, NaN),
               RowGet(columns, row, <<<<"d","a","t","e">>>>, NaN),
               RowGet(columns, row, <<<<"t","i","m","e">>>>, NaN),
               RowGet(columns, row, <<<<"T","r","a","d","e","D","a","t","e">>>>, NaN),
               RowGet(columns, row, <<<<"T","r","a","d","e","T","i","m","e">>>>, Str(<<"0","0",":","0","0",":","0","0">>)))

\* The direction: the Buy/Sell column when it says something, else the sign
\* of the quantity.
IB_direction(direction_raw, quantity) ==
    IF ~isna(direction_raw) /\ Strip(CellStr(direction_raw)) # <<>>
    THEN _parse_direction(direction_raw)
    ELSE Returned(IF quantity.v > 0 THEN "long" ELSE "short")

\* A cell that is read as a number only when it is not empty.
OptionalDecimal(raw) == IF isna(raw) THEN Returned(0) ELSE _parse_decimal(raw)

IB_trade(symbol, direction, price, trade_time, quantity, commission, pnl) ==
    IF pnl # 0
    THEN FloatBackSolvedRow(symbol, direction, trade_time, price, pnl, quantity, commission)
    ELSE OpenRow(symbol, direction, trade_time, price, quantity, commission)

\* The checks of _parse_row in their order, on the values read from the row.
IB_row(symbol, quantity, direction, price, trade_time, commission, pnl) ==
    IF symbol = <<>> THEN Skipped
    ELSE IF ~quantity.ok THEN Failed
    ELSE IF quantity.v = 0 THEN Skipped
    ELSE IF ~direction.ok THEN Failed
    ELSE IF ~price.ok THEN Failed
    ELSE IF price.v <= 0 THEN Failed
    ELSE IF ~trade_time.ok THEN Failed
    ELSE IF ~commission.ok THEN Failed
    ELSE IF ~pnl.ok THEN Failed
    ELSE IB_trade(FirstWord(symbol), direction.v, price.v, trade_time.v,
                  Abs(quantity.v), Abs(commission.v), pnl.v)

IB_row_by_sign(symbol, quantity, direction_raw, price, trade_time, commission, pnl) ==
    IB_row(symbol, quantity, IB_direction(direction_raw, quantity), price,
           trade_time, commission, pnl)

\* InteractiveBrokersParser._parse_row
IB_parse_row(columns, row) ==
    IB_row_by_sign(
        Strip(CellStr(RowGet(columns, row, <<<<"s","y","m","b","o","l">>, <<"S","y","m","b","o","l">>>>, Str(<<>>)))),
        _parse_decimal(RowGet(columns, row, <<<<"q","u","a","n","t","i","t","y">>, <<"Q","u","a","n","t","i","t","y">>, <<"Q","t","y">>>>, Num(0))),
        RowGet(columns, row, <<<<"d","i","r","e","c","t","i","o","n">>, <<"B","u","y","/","S","e","l","l">>>>, Str(<<>>)),
        _parse_decimal(RowGet(columns, row, <<<<"p","r","i","c","e">>, <<"P","r","i","c","e">>, <<"T","."," ","P","r","i","c","e">>>>, Num(0))),
        _parse_ib_datetime(columns, row),
        OptionalDecimal(RowGet(columns, row, <<<<"c","o","m","m","i","s","s","i","o","n">>, <<"C","o","m","m","/","F","e","e">>>>, Num(0))),
        OptionalDecimal(RowGet(columns, row,
                               <<<<"p","n","l">>, <<"R","e","a","l","i","z","e","d"," ","P","/","L">>, <<"R","e","a","l","i","z","e","d","P","n","L">>>>, NaN)))

(* --------------------------- src/parsers/binance.py: rows ------------- *)
Binance_COLUMN_MAPPING ==
    << <<<<"d","a","t","e","(","u","t","c",")">>, <<"d","a","t","e","t","i","m","e">>>>, <<<<"d","a","t","e">>, <<"d","a","t","e","t","i","m","e">>>>,
       <<<<"p","a","i","r">>, <<"s","y","m","b","o","l">>>>, <<<<"s","i","d","e">>, <<"d","i","r","e","c","t","i","o","n">>>>,
       <<<<"e","x","e","c","u","t","e","d">>, <<"q","u","a","n","t","i","t","y">>>>, <<<<"a","m","o","u","n","t">>, <<"v","a","l","u","e">>>>,
       <<<<"f","e","e">>, <<"c","o","m","m","i","s","s","i","o","n">>>>, <<<<"s","y","m","b","o","l">>, <<"s","y","m","b","o","l">>>>,
       <<<<"q","u","a","n","t","i","t","y">>, <<"q","u","a","n","t","i","t","y">>>>, <<<<"q","u","o","t","e"," ","q","u","a","n","t","i","t","y">>, <<"v","a","l","u","e">>>>,
       <<<<"c","o","m","m","i","s","s","i","o","n">>, <<"c","o","m","m","i","s","s","i","o","n">>>>,
       <<<<"c","o","m","m","i","s","s","i","o","n"," ","a","s","s","e","t">>, <<"c","o","m","m","i","s","s","i","o","n","_","a","s","s","e","t">>>>,
       <<<<"r","e","a","l","i","z","e","d"," ","p","r","o","f","i","t">>, <<"p","n","l">>>> >>

quote_currencies == <<<<"U","S","D","T">>, <<"B","U","S","D">>, <<"B","T","C">>, <<"E","T","H">>, <<"B","N","B">>, <<"U","S","D">>, <<"U","S","D","C">>>>

\* base/quote for the symbol and the quote currency that ends it.
Slashed(symbol, quote) ==
    SubSeq(symbol, 1, Len(symbol) - Len(quote)) \o <<"/">> \o quote

SplitAt(symbol, fit) ==
    IF fit = {} THEN symbol ELSE Slashed(symbol, quote_currencies[SetMin(fit)])

SplitQuote(symbol) ==
    SplitAt(symbol, {k \in 1..Len(quote_currencies) :
                        /\ EndsWith(symbol, quote_currencies[k])
                        /\ "/" \notin Range(symbol)
                        /\ Len(symbol) - Len(quote_currencies[k]) >= 2})

\* BinanceParser._normalize_symbol: BTCUSDT -> BTC/USDT by the first quote
\* currency of the list that ends the symbol and leaves a base of two or more.
Binance_normalize_symbol(symbol) == SplitQuote(Upper(Strip(symbol)))

Binance_missing(df_columns) ==
    (IF df_columns \cap {<<"p","a","i","r">>, <<"s","y","m","b","o","l">>} = {} THEN {"Pair/Symbol"} ELSE {})
    \cup (IF <<"s","i","d","e">> \notin df_columns THEN {"Side"} ELSE {})
    \cup (IF <<"p","r","i","c","e">> \notin df_columns THEN {"Price"} ELSE {})
    \cup (IF df_columns \cap {<<"e","x","e","c","u","t","e","d">>, <<"q","u","a","n","t","i","t","y">>} = {}
          THEN {"Executed/Quantity"} ELSE {})

\* BinanceParser._check_required_columns
Binance_check_required_columns(columns) == Binance_missing(LowerNames(columns))

\* abs(Decimal(fee_num)), zero when fee_num is no number.
FeeOf(fee_num) == IF fee_num.ok THEN Abs(fee_num.v) ELSE 0

\* The fee of a row: the digits, signs and points of its text as a Decimal.
BinanceFee(fee_raw) ==
    IF fee_raw.kind = "num" THEN Abs(fee_raw.v)
    ELSE IF fee_raw.kind = "str"
    THEN FeeOf(ParseFloat(Filter(fee_raw.s, LAMBDA c : c \in Digits \cup {".", "-"})))
    ELSE 0

\* pnl of a row: None (not ok) when the cell is empty or no number.
OptionalPnl(pnl_raw) == IF isna(pnl_raw) THEN Raised ELSE _parse_decimal(pnl_raw)

\* The checks of _parse_row in their order, on the values read from the row.
Binance_row(symbol, direction, trade_time, price, quantity, commission, pnl) ==
    IF symbol = <<>> \/ symbol = <<"/">> THEN Failed
    ELSE IF ~direction.ok THEN Failed
    ELSE IF ~trade_time.ok THEN Failed
    ELSE IF ~price.ok THEN Failed
    ELSE IF price.v <= 0 THEN Failed
    ELSE IF ~quantity.ok THEN Failed
    ELSE IF quantity.v <= 0 THEN Failed
    ELSE IF pnl.ok
    THEN FloatBackSolvedRow(symbol, direction.v, trade_time.v, price.v, pnl.v, quantity.v, commission)
    ELSE OpenRow(symbol, direction.v, trade_time.v, price.v, quantity.v, commission)

\* BinanceParser._parse_row
Binance_parse_row(columns, row) ==
    Binance_row(
        Binance_normalize_symbol(
            CellStr(RowGet(columns, row, <<<<"s","y","m","b","o","l">>, <<"P","a","i","r">>>>, Str(<<>>)))),
        _parse_direction(RowGet(columns, row, <<<<"d","i","r","e","c","t","i","o","n">>, <<"S","i","d","e">>>>, Str(<<>>))),
        _parse_datetime(RowGet(columns, row,
                               <<<<"d","a","t","e","t","i","m","e">>, <<"D","a","t","e","(","U","T","C",")">>, <<"D","a","t","e">>>>, Str(<<>>))),
        _parse_decimal(RowGet(columns, row, <<<<"p","r","i","c","e">>, <<"P","r","i","c","e">>>>, Num(0))),
        _parse_decimal(RowGet(columns, row,
                              <<<<"q","u","a","n","t","i","t","y">>, <<"E","x","e","c","u","t","e","d">>, <<"Q","u","a","n","t","i","t","y">>>>, Num(0))),
        BinanceFee(RowGet(columns, row, <<<<"c","o","m","m","i","s","s","i","o","n">>, <<"F","e","e">>>>, Num(0))),
        OptionalPnl(RowGet(columns, row, <<<<"p","n","l">>, <<"R","e","a","l","i","z","e","d"," ","P","r","o","f","i","t">>>>, NaN)))

(* --------------------------- src/parsers/tradovate.py ----------------- *)
Tradovate_COLUMN_MAPPING ==
    << <<<<"d","a","t","e">>, <<"d","a","t","e","t","i","m","e">>>>, <<<<"c","o","n","t","r","a","c","t">>, <<"s","y","m","b","o","l">>>>,
       <<<<"b","/","s">>, <<"d","i","r","e","c","t","i","o","n">>>>, <<<<"b","u","y","/","s","e","l","l">>, <<"d","i","r","e","c","t","i","o","n">>>>,
       <<<<"q","t","y">>, <<"q","u","a","n","t","i","t","y">>>>, <<<<"p","r","i","c","e">>, <<"p","r","i","c","e">>>>, <<<<"p","&","l">>, <<"p","n","l">>>>,
       <<<<"c","u","m","u","l","a","t","i","v","e"," ","p","&","l">>, <<"c","u","m","u","l","a","t","i","v","e","_","p","n","l">>>>,
       <<<<"c","o","m","m","i","s","s","i","o","n">>, <<"c","o","m","m","i","s","s","i","o","n">>>>, <<<<"o","r","d","e","r","i","d">>, <<"o","r","d","e","r","_","i","d">>>>,
       <<<<"a","c","c","o","u","n","t","i","d">>, <<"a","c","c","o","u","n","t">>>>, <<<<"c","o","n","t","r","a","c","t","i","d">>, <<"s","y","m","b","o","l">>>>,
       <<<<"t","i","m","e","s","t","a","m","p">>, <<"d","a","t","e","t","i","m","e">>>>, <<<<"a","c","t","i","o","n">>, <<"d","i","r","e","c","t","i","o","n">>>>,
       <<<<"o","r","d","s","t","a","t","u","s">>, <<"s","t","a","t","u","s">>>>, <<<<"o","r","d","t","y","p","e">>, <<"o","r","d","e","r","_","t","y","p","e">>>>,
       <<<<"f","i","l","l","e","d","q","t","y">>, <<"q","u","a","n","t","i","t","y">>>>, <<<<"a","v","g","f","i","l","l","p","r","i","c","e">>, <<"p","r","i","c","e">>>> >>

MonthCodes == {"F","G","H","J","K","M","N","Q","U","V","X","Z"}

RootOf(symbol, fit) == IF fit = {} THEN symbol ELSE SubSeq(symbol, 1, SetMax(fit))

\* The match of ^([A-Z]{2,4})[FGHJKMNQUVXZ]\d{1,2}$ gives its group 1.
FuturesRoot(symbol) ==
    RootOf(symbol, {k \in 2..4 :
                       /\ Len(symbol) - k - 1 \in {1, 2}
                       /\ \A i \in 1..k : symbol[i] \in Range(UpperChars)
                       /\ symbol[k + 1] \in MonthCodes
                       /\ \A i \in (k + 2)..Len(symbol) : symbol[i] \in Digits})

\* TradovateParser._normalize_symbol
Tradovate_normalize_symbol(symbol) == FuturesRoot(Upper(Strip(symbol)))

FormatOf(columns_lower) ==
    IF <<"b","/","s">> \in columns_lower \/ <<"b","u","y","/","s","e","l","l">> \in columns_lower THEN "trade_breakdown"
    ELSE IF <<"a","c","t","i","o","n">> \in columns_lower \/ <<"o","r","d","s","t","a","t","u","s">> \in columns_lower
    THEN "order_history"
    ELSE "trade_breakdown"

\* TradovateParser._detect_format
_detect_format(columns) == FormatOf(LowerNames(columns))

\* TradovateParser._check_required_columns
Tradovate_check_required_columns(columns) ==
    IF LowerNames(columns) \cap {<<"c","o","n","t","r","a","c","t">>, <<"c","o","n","t","r","a","c","t","i","d">>, <<"s","y","m","b","o","l">>} = {}
    THEN {"Contract"} ELSE {}

\* pnl of a breakdown row: None when the cell is empty, blank or no number.
BreakdownPnl(pnl_raw) ==
    IF isna(pnl_raw) \/ (pnl_raw.kind = "str" /\ Strip(pnl_raw.s) = <<>>)
    THEN Raised ELSE _parse_decimal(pnl_raw)

\* abs(Decimal(...)) of the commission cell, zero when empty or no number.
BreakdownFee(comm_raw) == FeeOf(OptionalPnl(comm_raw))

\* The checks of _parse_row in their order, on the values read from the row.
Tradovate_row(symbol_raw, direction_raw, direction_str, quantity, price, trade_time, pnl, commission) ==
    IF isna(symbol_raw) \/ Strip(CellStr(symbol_raw)) = <<>> THEN Skipped
    ELSE IF isna(direction_raw) THEN Skipped
    ELSE IF direction_str \notin {<<"b","u","y">>, <<"b">>, <<"l","o","n","g">>, <<"s","e","l","l">>, <<"s">>, <<"s","h","o","r","t">>}
    THEN Skipped
    ELSE IF ~quantity.ok THEN Failed
    ELSE IF quantity.v <= 0 THEN Skipped
    ELSE IF ~price.ok THEN Failed
    ELSE IF price.v <= 0 THEN Failed
    ELSE IF ~trade_time.ok THEN Failed
    ELSE IF pnl.ok
    THEN ClosedRow(Tradovate_normalize_symbol(CellStr(symbol_raw)),
                   IF direction_str \in {<<"b","u","y">>, <<"b">>, <<"l","o","n","g">>} THEN "long" ELSE "short",
                   trade_time.v, price.v, pnl.v, quantity.v, commission)
    ELSE OpenRow(Tradovate_normalize_symbol(CellStr(symbol_raw)),
                 IF direction_str \in {<<"b","u","y">>, <<"b">>, <<"l","o","n","g">>} THEN "long" ELSE "short",
                 trade_time.v, price.v, quantity.v, commission)

Tradovate_row_of(symbol_raw, direction_raw, quantity, price, trade_time, pnl, commission) ==
    Tradovate_row(symbol_raw, direction_raw, Strip(Lower(CellStr(direction_raw))),
                  quantity, price, trade_time, pnl, commission)

\* TradovateParser._parse_row (Trade Breakdown)
Tradovate_parse_row(columns, row) ==
    Tradovate_row_of(
        RowGet(columns, row, <<<<"s","y","m","b","o","l">>, <<"C","o","n","t","r","a","c","t">>>>, Str(<<>>)),
        RowGet(columns, row, <<<<"d","i","r","e","c","t","i","o","n">>, <<"B","/","S">>, <<"A","c","t","i","o","n">>>>, Str(<<>>)),
        Magnitude(_parse_decimal(RowGet(columns, row, <<<<"q","u","a","n","t","i","t","y">>, <<"Q","t","y">>>>, Num(1)))),
        _parse_decimal(RowGet(columns, row,
                              <<<<"p","r","i","c","e">>, <<"P","r","i","c","e">>, <<"a","v","g","f","i","l","l","p","r","i","c","e">>>>, Num(0))),
        _parse_datetime(RowGet(columns, row,
                               <<<<"d","a","t","e","t","i","m","e">>, <<"D","a","t","e">>, <<"t","i","m","e","s","t","a","m","p">>>>, Str(<<>>))),
        BreakdownPnl(RowGet(columns, row, <<<<"p","n","l">>, <<"P","&","L">>>>, NaN)),
        BreakdownFee(RowGet(columns, row, <<<<"c","o","m","m","i","s","s","i","o","n">>, <<"C","o","m","m","i","s","s","i","o","n">>>>, Num(0))))

(* --------------------------- src/parsers/generic.py ------------------- *)
Generic_REQUIRED_COLUMNS == <<<<"s","y","m","b","o","l">>, <<"d","i","r","e","c","t","i","o","n">>, <<"e","n","t","r","y","_","t","i","m","e">>, <<"e","n","t","r","y","_","p","r","i","c","e">>, <<"q","u","a","n","t","i","t","y">>>>

Generic_COLUMN_MAPPING ==
    << <<<<"t","i","c","k","e","r">>, <<"s","y","m","b","o","l">>>>, <<<<"i","n","s","t","r","u","m","e","n","t">>, <<"s","y","m","b","o","l">>>>, <<<<"a","s","s","e","t">>, <<"s","y","m","b","o","l">>>>, <<<<"p","a","i","r">>, <<"s","y","m","b","o","l">>>>,
       <<<<"s","i","d","e">>, <<"d","i","r","e","c","t","i","o","n">>>>, <<<<"t","y","p","e">>, <<"d","i","r","e","c","t","i","o","n">>>>, <<<<"a","c","t","i","o","n">>, <<"d","i","r","e","c","t","i","o","n">>>>, <<<<"p","o","s","i","t","i","o","n">>, <<"d","i","r","e","c","t","i","o","n">>>>,
       <<<<"o","p","e","n","_","t","i","m","e">>, <<"e","n","t","r","y","_","t","i","m","e">>>>, <<<<"e","n","t","r","y","_","d","a","t","e">>, <<"e","n","t","r","y","_","t","i","m","e">>>>, <<<<"o","p","e","n","_","d","a","t","e">>, <<"e","n","t","r","y","_","t","i","m","e">>>>,
       <<<<"c","l","o","s","e","_","t","i","m","e">>, <<"e","x","i","t","_","t","i","m","e">>>>, <<<<"e","x","i","t","_","d","a","t","e">>, <<"e","x","i","t","_","t","i","m","e">>>>, <<<<"c","l","o","s","e","_","d","a","t","e">>, <<"e","x","i","t","_","t","i","m","e">>>>,
       <<<<"o","p","e","n","_","p","r","i","c","e">>, <<"e","n","t","r","y","_","p","r","i","c","e">>>>, <<<<"c","l","o","s","e","_","p","r","i","c","e">>, <<"e","x","i","t","_","p","r","i","c","e">>>>, <<<<"b","u","y","_","p","r","i","c","e">>, <<"e","n","t","r","y","_","p","r","i","c","e">>>>,
       <<<<"s","e","l","l","_","p","r","i","c","e">>, <<"e","x","i","t","_","p","r","i","c","e">>>>,
       <<<<"s","i","z","e">>, <<"q","u","a","n","t","i","t","y">>>>, <<<<"v","o","l","u","m","e">>, <<"q","u","a","n","t","i","t","y">>>>, <<<<"l","o","t","s">>, <<"q","u","a","n","t","i","t","y">>>>, <<<<"a","m","o","u","n","t">>, <<"q","u","a","n","t","i","t","y">>>>,
       <<<<"s","h","a","r","e","s">>, <<"q","u","a","n","t","i","t","y">>>>, <<<<"c","o","n","t","r","a","c","t","s">>, <<"q","u","a","n","t","i","t","y">>>>,
       <<<<"f","e","e">>, <<"c","o","m","m","i","s","s","i","o","n">>>>, <<<<"f","e","e","s">>, <<"c","o","m","m","i","s","s","i","o","n">>>>, <<<<"c","o","s","t">>, <<"c","o","m","m","i","s","s","i","o","n">>>> >>

\* dict.get(key, default) on a dict literal kept as its items in order.
DictGet(mapping, key, default, at) == IF at = {} THEN default ELSE mapping[SetMax(at)][2]

MappedName(mapping, required) ==
    DictGet(mapping, required, required, {e \in 1..Len(mapping) : mapping[e][1] = required})

\* BaseParser._check_required_columns: the required names that are columns
\* neither as they are nor as COLUMN_MAPPING.get(required, required).
Base_check_required_columns(REQUIRED_COLUMNS, mapping, df_columns) ==
    {REQUIRED_COLUMNS[r] : r \in {q \in 1..Len(REQUIRED_COLUMNS) :
        /\ Lower(REQUIRED_COLUMNS[q]) \notin df_columns
        /\ Lower(MappedName(mapping, REQUIRED_COLUMNS[q])) \notin df_columns}}

\* _parse_decimal(value, allow_negative=False)
NonNegative(r) == IF r.ok /\ r.v < 0 THEN Raised ELSE r

\* Decimal(str(exit_price)) if exit_price else None
OrNone(exit_price) == IF exit_price = 0 THEN None ELSE Some(exit_price)

\* The keyword arguments of a Trade(...) call that passes status, exit_time
\* and exit_price as the row parser computed them.
RowArgs(symbol, direction, status, entry_time, exit_time, entry_price, exit_price, quantity, commission) ==
    [symbol |-> symbol, direction |-> direction, status |-> status,
     entry_time |-> entry_time, exit_time |-> exit_time,
     entry_price |-> entry_price, exit_price |-> exit_price,
     quantity |-> quantity, commission |-> commission,
     override_pnl |-> None, account_id |-> None, broker_name |-> None]

\* The optional fields of a row that has both an exit time and an exit price.
Generic_closed(symbol, direction, entry_time, entry_price, quantity, exit_time, exit_price, commission) ==
    IF ~exit_time.ok THEN Failed
    ELSE IF ~exit_price.ok THEN Failed
    ELSE IF exit_time.v < entry_time THEN Failed
    ELSE IF ~commission.ok THEN Failed
    ELSE MakeTrade(RowArgs(symbol, direction, "closed", entry_time, Some(exit_time.v),
                             entry_price, OrNone(exit_price.v), quantity, commission.v))

Generic_open(symbol, direction, entry_time, entry_price, quantity, commission) ==
    IF ~commission.ok THEN Failed
    ELSE MakeTrade(RowArgs(symbol, direction, "open", entry_time, None,
                             entry_price, None, quantity, commission.v))

\* The checks of _parse_row in their order, on the values read from the row.
Generic_row(symbol, direction, entry_time, entry_price, quantity, has_exit, exit_time, exit_price, commission) ==
    IF symbol = <<>> THEN Failed
    ELSE IF ~direction.ok THEN Failed
    ELSE IF ~entry_time.ok THEN Failed
    ELSE IF ~entry_price.ok THEN Failed
    ELSE IF ~quantity.ok THEN Failed
    ELSE IF quantity.v <= 0 THEN Failed
    ELSE IF entry_price.v <= 0 THEN Failed
    ELSE IF has_exit
    THEN Generic_closed(symbol, direction.v, entry_time.v, entry_price.v, quantity.v,
                        exit_time, exit_price, commission)
    ELSE Generic_open(symbol, direction.v, entry_time.v, entry_price.v, quantity.v, commission)

\* GenericCSVParser._parse_row
Generic_parse_row(columns, row) ==
    Generic_row(
        Strip(CellStr(RowGet(columns, row, <<<<"s","y","m","b","o","l">>>>, Str(<<>>)))),
        _parse_direction(RowGet(columns, row, <<<<"d","i","r","e","c","t","i","o","n">>>>, NaN)),
        _parse_datetime(RowGet(columns, row, <<<<"e","n","t","r","y","_","t","i","m","e">>>>, NaN)),
        NonNegative(_parse_decimal(RowGet(columns, row, <<<<"e","n","t","r","y","_","p","r","i","c","e">>>>, NaN))),
        NonNegative(_parse_decimal(RowGet(columns, row, <<<<"q","u","a","n","t","i","t","y">>>>, NaN))),
        ~isna(RowGet(columns, row, <<<<"e","x","i","t","_","t","i","m","e">>>>, NaN)) /\ ~isna(RowGet(columns, row, <<<<"e","x","i","t","_","p","r","i","c","e">>>>, NaN)),
        _parse_datetime(RowGet(columns, row, <<<<"e","x","i","t","_","t","i","m","e">>>>, NaN)),
        NonNegative(_parse_decimal(RowGet(columns, row, <<<<"e","x","i","t","_","p","r","i","c","e">>>>, NaN))),
        OptionalDecimal(RowGet(columns, row, <<<<"c","o","m","m","i","s","s","i","o","n">>>>, NaN)))

(* --------------------------- src/parsers/metatrader.py ---------------- *)
MT_COLUMN_MAPPING ==
    << <<<<"t","i","c","k","e","t">>, <<"t","i","c","k","e","t">>>>, <<<<"o","p","e","n"," ","t","i","m","e">>, <<"e","n","t","r","y","_","t","i","m","e">>>>, <<<<"t","y","p","e">>, <<"d","i","r","e","c","t","i","o","n">>>>, <<<<"s","i","z","e">>, <<"q","u","a","n","t","i","t","y">>>>,
       <<<<"p","r","i","c","e">>, <<"e","n","t","r","y","_","p","r","i","c","e">>>>, <<<<"s","/","l">>, <<"s","t","o","p","_","l","o","s","s">>>>, <<<<"t","/","p">>, <<"t","a","k","e","_","p","r","o","f","i","t">>>>,
       <<<<"c","l","o","s","e"," ","t","i","m","e">>, <<"e","x","i","t","_","t","i","m","e">>>>, <<<<"c","l","o","s","e"," ","p","r","i","c","e">>, <<"e","x","i","t","_","p","r","i","c","e">>>>, <<<<"c","o","m","m","i","s","s","i","o","n">>, <<"c","o","m","m","i","s","s","i","o","n">>>>,
       <<<<"s","w","a","p">>, <<"s","w","a","p">>>>, <<<<"p","r","o","f","i","t">>, <<"p","n","l">>>>, <<<<"p","o","s","i","t","i","o","n">>, <<"t","i","c","k","e","t">>>>, <<<<"v","o","l","u","m","e">>, <<"q","u","a","n","t","i","t","y">>>>,
       <<<<"t","i","m","e">>, <<"e","n","t","r","y","_","t","i","m","e">>>>, <<<<"t","i","m","e",".","1">>, <<"e","x","i","t","_","t","i","m","e">>>>, <<<<"p","r","i","c","e",".","1">>, <<"e","x","i","t","_","p","r","i","c","e">>>> >>

\* MetaTrader4Parser._parse_mt_direction, type_str being lowered and stripped.
_parse_mt_direction(type_str) ==
    IF Contains(type_str, <<"b","u","y">>) THEN Returned("long")
    ELSE IF Contains(type_str, <<"s","e","l","l">>) THEN Returned("short")
    ELSE IF type_str = <<"0">> THEN Returned("long")
    ELSE IF type_str = <<"1">> THEN Returned("short")
    ELSE Raised

pending_types ==
    {<<"b","u","y"," ","l","i","m","i","t">>, <<"s","e","l","l"," ","l","i","m","i","t">>, <<"b","u","y"," ","s","t","o","p">>, <<"s","e","l","l"," ","s","t","o","p">>, <<"b","a","l","a","n","c","e">>, <<"c","r","e","d","i","t">>, <<"d","e","p","o","s","i","t">>, <<"w","i","t","h","d","r","a","w">>}

\* MetaTrader4Parser._is_trading_row, order_type being the lowered text.
_is_trading_row(order_type) == ~\E pending \in pending_types : Contains(order_type, pending)

\* str(value).strip() is empty: a number or a timestamp never is.
Blank(c) == c.kind = "str" /\ Strip(c.s) = <<>>

\* The exit of the row: closed only when both cells are filled, the price
\* is positive and the time can be read; an unreadable time leaves the
\* trade open, an unreadable price raises.
MT_exit(exit_time_raw, exit_price_raw, exit_price_val, exit_time) ==
    IF isna(exit_time_raw) \/ isna(exit_price_raw)
    THEN [failed |-> FALSE, status |-> "open", exit_time |-> None, exit_price |-> None]
    ELSE IF ~exit_price_val.ok
    THEN [failed |-> TRUE, status |-> "open", exit_time |-> None, exit_price |-> None]
    ELSE IF ~Blank(exit_time_raw) /\ exit_price_val.v > 0 /\ exit_time.ok
    THEN [failed |-> FALSE, status |-> "closed", exit_time |-> Some(exit_time.v),
          exit_price |-> Some(exit_price_val.v)]
    ELSE [failed |-> FALSE, status |-> "open", exit_time |-> None, exit_price |-> None]

\* The checks of _parse_row in their order, on the values read from the row.
MT_row(trading, symbol, direction_raw, direction, quantity, entry_time, entry_price, exit, commission, swap) ==
    IF ~trading THEN Skipped
    ELSE IF symbol = <<>> THEN Failed
    ELSE IF isna(direction_raw) THEN Failed
    ELSE IF ~direction.ok THEN Failed
    ELSE IF ~quantity.ok THEN Failed
    ELSE IF quantity.v <= 0 THEN Failed
    ELSE IF ~entry_time.ok THEN Failed
    ELSE IF ~entry_price.ok THEN Failed
    ELSE IF entry_price.v <= 0 THEN Failed
    ELSE IF exit.failed THEN Failed
    ELSE IF ~commission.ok THEN Failed
    ELSE IF ~swap.ok THEN Failed
    ELSE MakeTrade(RowArgs(symbol, direction.v, exit.status, entry_time.v, exit.exit_time,
                             entry_price.v, exit.exit_price, quantity.v,
                             Abs(commission.v) + Abs(swap.v)))

MT_row_of(order_type, symbol, direction_raw, quantity, entry_time, entry_price, exit_time_raw, exit_price_raw, commission, swap) ==
    MT_row(_is_trading_row(Lower(CellStr(order_type))), symbol, direction_raw,
           _parse_mt_direction(Strip(Lower(CellStr(direction_raw)))),
           quantity, entry_time, entry_price,
           MT_exit(exit_time_raw, exit_price_raw, _parse_decimal(exit_price_raw),
                   _parse_datetime(exit_time_raw)),
           commission, swap)

\* MetaTrader4Parser._parse_row
MT_parse_row(columns, row) ==
    MT_row_of(
        RowGet(columns, row, <<<<"d","i","r","e","c","t","i","o","n">>, <<"t","y","p","e">>>>, Str(<<>>)),
        Strip(CellStr(RowGet(columns, row, <<<<"s","y","m","b","o","l">>, <<"S","y","m","b","o","l">>>>, Str(<<>>)))),
        RowGet(columns, row, <<<<"d","i","r","e","c","t","i","o","n">>, <<"T","y","p","e">>>>, Str(<<>>)),
        _parse_decimal(RowGet(columns, row, <<<<"q","u","a","n","t","i","t","y">>, <<"S","i","z","e">>, <<"V","o","l","u","m","e">>>>, Num(0))),
        _parse_datetime(RowGet(columns, row, <<<<"e","n","t","r","y","_","t","i","m","e">>, <<"O","p","e","n"," ","T","i","m","e">>>>, Str(<<>>))),
        _parse_decimal(RowGet(columns, row, <<<<"e","n","t","r","y","_","p","r","i","c","e">>, <<"P","r","i","c","e">>>>, Num(0))),
        RowGet(columns, row, <<<<"e","x","i","t","_","t","i","m","e">>, <<"C","l","o","s","e"," ","T","i","m","e">>>>, NaN),
        RowGet(columns, row, <<<<"e","x","i","t","_","p","r","i","c","e">>, <<"C","l","o","s","e"," ","P","r","i","c","e">>>>, NaN),
        OptionalDecimal(RowGet(columns, row, <<<<"c","o","m","m","i","s","s","i","o","n">>, <<"C","o","m","m","i","s","s","i","o","n">>>>, Num(0))),
        OptionalDecimal(RowGet(columns, row, <<<<"s","w","a","p">>, <<"S","w","a","p">>>>, Num(0))))

MT_missing(df_columns) ==
    (IF df_columns \cap {<<"t","i","c","k","e","t">>, <<"p","o","s","i","t","i","o","n">>} = {} THEN {"Ticket"} ELSE {})
    \cup (IF <<"s","y","m","b","o","l">> \notin df_columns THEN {"Symbol"} ELSE {})
    \cup (IF <<"t","y","p","e">> \notin df_columns THEN {"Type"} ELSE {})
    \cup (IF df_columns \cap {<<"s","i","z","e">>, <<"v","o","l","u","m","e">>, <<"l","o","t","s">>} = {} THEN {"Size"} ELSE {})

\* MetaTrader4Parser._check_required_columns: the missing names.
MT_check_required_columns(columns) == MT_missing(LowerNames(columns))

(* --------------------------- src/parsers/ninjatrader.py --------------- *)
NT_COLUMN_MAPPING ==
    << <<<<"t","r","a","d","e"," ","#">>, <<"t","r","a","d","e","_","n","u","m","b","e","r">>>>, <<<<"i","n","s","t","r","u","m","e","n","t">>, <<"s","y","m","b","o","l">>>>, <<<<"a","c","c","o","u","n","t">>, <<"a","c","c","o","u","n","t">>>>,
       <<<<"s","t","r","a","t","e","g","y">>, <<"s","t","r","a","t","e","g","y">>>>, <<<<"m","a","r","k","e","t"," ","p","o","s",".">>, <<"d","i","r","e","c","t","i","o","n">>>>, <<<<"m","a","r","k","e","t"," ","p","o","s","i","t","i","o","n">>, <<"d","i","r","e","c","t","i","o","n">>>>,
       <<<<"q","u","a","n","t","i","t","y">>, <<"q","u","a","n","t","i","t","y">>>>, <<<<"q","t","y">>, <<"q","u","a","n","t","i","t","y">>>>, <<<<"e","n","t","r","y"," ","p","r","i","c","e">>, <<"e","n","t","r","y","_","p","r","i","c","e">>>>,
       <<<<"e","x","i","t"," ","p","r","i","c","e">>, <<"e","x","i","t","_","p","r","i","c","e">>>>, <<<<"e","n","t","r","y"," ","t","i","m","e">>, <<"e","n","t","r","y","_","t","i","m","e">>>>, <<<<"e","x","i","t"," ","t","i","m","e">>, <<"e","x","i","t","_","t","i","m","e">>>>,
       <<<<"e","n","t","r","y"," ","n","a","m","e">>, <<"e","n","t","r","y","_","n","a","m","e">>>>, <<<<"e","x","i","t"," ","n","a","m","e">>, <<"e","x","i","t","_","n","a","m","e">>>>, <<<<"p","r","o","f","i","t">>, <<"p","n","l">>>>,
       <<<<"c","u","m","."," ","p","r","o","f","i","t">>, <<"c","u","m","u","l","a","t","i","v","e","_","p","n","l">>>>, <<<<"c","o","m","m","i","s","s","i","o","n">>, <<"c","o","m","m","i","s","s","i","o","n">>>>, <<<<"m","a","e">>, <<"m","a","e">>>>,
       <<<<"m","f","e">>, <<"m","f","e">>>>, <<<<"e","t","d">>, <<"e","t","d">>>>, <<<<"b","a","r","s">>, <<"b","a","r","s">>>> >>

\* \d{2}[-]?\d{2}$ after the blanks that follow the letters.
ExpiryLike(rest) ==
    \/ Len(rest) = 4 /\ \A i \in 1..4 : rest[i] \in Digits
    \/ Len(rest) = 5 /\ rest[3] = "-" /\ \A i \in {1, 2, 4, 5} : rest[i] \in Digits

\* re.match(r'^([A-Z]+)\s*\d{2}[-]?\d{2}$', symbol): group 1 is the leading
\* run of capital letters, of length k.
NT_root(symbol, k) ==
    IF k > 0 /\ ExpiryLike(Strip(SubSeq(symbol, k + 1, Len(symbol))))
    THEN SubSeq(symbol, 1, k)
    ELSE Upper(symbol)

CapitalRun(symbol) ==
    SetMax({k \in 0..Len(symbol) : \A i \in 1..k : symbol[i] \in Range(UpperChars)})

\* NinjaTrader8Parser._normalize_symbol
NT_normalize_symbol(symbol) == NT_root(Strip(symbol), CapitalRun(Strip(symbol)))

NT_direction(direction_str) ==
    IF Contains(direction_str, <<"l","o","n","g">>) THEN Returned("long")
    ELSE IF Contains(direction_str, <<"s","h","o","r","t">>) THEN Returned("short")
    ELSE Raised

\* The exit time is read only from a filled cell, and a text that is no
\* timestamp is dropped silently.
NT_exit_time(exit_time_raw, exit_time) ==
    IF isna(exit_time_raw) \/ Blank(exit_time_raw) THEN None
    ELSE IF exit_time.ok THEN Some(exit_time.v)
    ELSE None

\* The checks of _parse_row in their order, on the values read from the
\* row; an empty exit price cell leaves exit_price None, which is as falsy
\* as a zero.
NT_row(symbol_raw, direction_raw, direction, quantity, entry_price, exit_price, entry_time, exit_time, commission) ==
    IF isna(symbol_raw) \/ Blank(symbol_raw) THEN Skipped
    ELSE IF isna(direction_raw) THEN Skipped
    ELSE IF ~direction.ok THEN Failed
    ELSE IF ~quantity.ok THEN Failed
    ELSE IF quantity.v <= 0 THEN Failed
    ELSE IF ~entry_price.ok THEN Failed
    ELSE IF entry_price.v <= 0 THEN Failed
    ELSE IF ~exit_price.ok THEN Failed
    ELSE IF ~entry_time.ok THEN Failed
    ELSE IF ~commission.ok THEN Failed
    ELSE MakeTrade(RowArgs(NT_normalize_symbol(CellStr(symbol_raw)), direction.v,
                             IF exit_price.v # 0 THEN "closed" ELSE "open",
                             entry_time.v, exit_time, entry_price.v, OrNone(exit_price.v),
                             quantity.v, Abs(commission.v)))

NT_row_of(symbol_raw, direction_raw, quantity, entry_price, exit_price, entry_time, exit_time_raw, commission) ==
    NT_row(symbol_raw, direction_raw, NT_direction(Strip(Lower(CellStr(direction_raw)))),
           quantity, entry_price, exit_price, entry_time,
           NT_exit_time(exit_time_raw, _parse_datetime(exit_time_raw)), commission)

\* NinjaTrader8Parser._parse_row
NT_parse_row(columns, row) ==
    NT_row_of(
        RowGet(columns, row, <<<<"s","y","m","b","o","l">>, <<"I","n","s","t","r","u","m","e","n","t">>>>, Str(<<>>)),
        RowGet(columns, row, <<<<"d","i","r","e","c","t","i","o","n">>, <<"M","a","r","k","e","t"," ","p","o","s",".">>>>, Str(<<>>)),
        _parse_decimal(RowGet(columns, row, <<<<"q","u","a","n","t","i","t","y">>>>, Num(1))),
        _parse_decimal(RowGet(columns, row, <<<<"e","n","t","r","y","_","p","r","i","c","e">>, <<"E","n","t","r","y"," ","p","r","i","c","e">>>>, Num(0))),
        OptionalDecimal(RowGet(columns, row, <<<<"e","x","i","t","_","p","r","i","c","e">>, <<"E","x","i","t"," ","p","r","i","c","e">>>>, NaN)),
        _parse_datetime(RowGet(columns, row, <<<<"e","n","t","r","y","_","t","i","m","e">>, <<"E","n","t","r","y"," ","t","i","m","e">>>>, Str(<<>>))),
        RowGet(columns, row, <<<<"e","x","i","t","_","t","i","m","e">>, <<"E","x","i","t"," ","t","i","m","e">>>>, NaN),
        OptionalDecimal(RowGet(columns, row, <<<<"c","o","m","m","i","s","s","i","o","n">>, <<"C","o","m","m","i","s","s","i","o","n">>>>, Num(0))))

NT_missing(df_columns) ==
    (IF df_columns \cap {<<"i","n","s","t","r","u","m","e","n","t">>, <<"s","y","m","b","o","l">>} = {} THEN {"Instrument"} ELSE {})
    \cup (IF df_columns \cap {<<"q","u","a","n","t","i","t","y">>, <<"q","t","y">>} = {} THEN {"Quantity"} ELSE {})
    \cup (IF <<"e","n","t","r","y"," ","p","r","i","c","e">> \notin df_columns THEN {"Entry price"} ELSE {})

\* NinjaTrader8Parser._check_required_columns: the missing names.
NT_check_required_columns(columns) == NT_missing(LowerNames(columns))

(* --------------------------- src/parsers/factory.py ------------------- *)
ib_signatures ==
    {<<"i","b","c","o","m","m","i","s","s","i","o","n">>, <<"i","b","t","r","a","d","e","i","d">>, <<"a","c","c","o","u","n","t"," ","m","a","n","a","g","e","m","e","n","t">>, <<"f","l","e","x"," ","q","u","e","r","y">>, <<"s","t","a","t","e","m","e","n","t",",","h","e","a","d","e","r">>, <<"u","1","2","3","4","5","6","7">>}

nt_signatures ==
    {<<"m","a","r","k","e","t"," ","p","o","s",".">>, <<"m","a","r","k","e","t"," ","p","o","s","i","t","i","o","n">>, <<"e","n","t","r","y"," ","n","a","m","e">>, <<"e","x","i","t"," ","n","a","m","e">>, <<"m","a","e">>, <<"m","f","e">>, <<"e","t","d">>,
     <<"c","u","m","."," ","p","r","o","f","i","t">>, <<"t","r","a","d","e"," ","#">>, <<"n","i","n","j","a","t","r","a","d","e","r">>}

tradovate_signatures ==
    {<<"t","r","a","d","o","v","a","t","e">>, <<"c","o","n","t","r","a","c","t","i","d">>, <<"o","r","d","s","t","a","t","u","s">>, <<"o","r","d","t","y","p","e">>, <<"a","v","g","f","i","l","l","p","r","i","c","e">>, <<"f","i","l","l","e","d","q","t","y">>, <<"b","/","s">>,
     <<"c","u","m","u","l","a","t","i","v","e"," ","p","&","l">>, <<"c","o","n","t","r","a","c","t">>, <<"c","o","m","m","i","s","s","i","o","n">>}

mt_signatures == {<<"t","i","c","k","e","t">>, <<"o","p","e","n"," ","t","i","m","e">>, <<"c","l","o","s","e"," ","t","i","m","e">>, <<"s","w","a","p">>, <<"t","/","p">>, <<"s","/","l">>}

binance_signatures ==
    {<<"d","a","t","e","(","u","t","c",")">>, <<"p","a","i","r">>, <<"b","i","n","a","n","c","e">>, <<"q","u","o","t","e"," ","q","u","a","n","t","i","t","y">>, <<"c","o","m","m","i","s","s","i","o","n"," ","a","s","s","e","t">>, <<"b","u","s","d">>, <<"u","s","d","t">>, <<"b","n","b">>}

\* sum(1 for sig in signatures if sig in content_lower)
Hits(content_lower, signatures) == Cardinality({sig \in signatures : Contains(content_lower, sig)})

\* The tests of detect_broker_from_content in their order.
ByContent(content_lower) ==
    IF \E sig \in ib_signatures : Contains(content_lower, sig) THEN "interactive_brokers"
    ELSE IF Hits(content_lower, nt_signatures) >= 2 THEN "ninja_trader"
    ELSE IF /\ Contains(content_lower, <<"c","o","n","t","r","a","c","t">>)
            /\ Contains(content_lower, <<"b","/","s">>)
            /\ Contains(content_lower, <<"q","t","y">>)
    THEN "tradovate"
    ELSE IF /\ Contains(content_lower, <<"b","u","y","p","r","i","c","e">>)
            /\ Contains(content_lower, <<"s","e","l","l","p","r","i","c","e">>)
            /\ Contains(content_lower, <<"b","o","u","g","h","t","t","i","m","e","s","t","a","m","p">>)
    THEN "tradovate"
    ELSE IF Hits(content_lower, tradovate_signatures) >= 2 THEN "tradovate"
    ELSE IF Hits(content_lower, mt_signatures) >= 3 THEN "metatrader4"
    ELSE IF Hits(content_lower, binance_signatures) >= 2 THEN "binance"
    ELSE "generic"

\* ParserFactory.detect_broker_from_content
detect_broker_from_content(content) == ByContent(Lower(content))

\* ''.join(lines)
RECURSIVE Join(_)
Join(lines) == IF lines = <<>> THEN <<>> ELSE Head(lines) \o Join(Tail(lines))

\* ''.join([f.readline() for _ in range(5)])
first_lines(lines) == Join(SubSeq(lines, 1, IF Len(lines) < 5 THEN Len(lines) ELSE 5))

\* The tests of detect_broker on the lower-cased stem of the file name; a
\* file that cannot be read (lines = None) is Generic.
ByName(filename, lines) ==
    IF \E hint \in {<<"i","n","t","e","r","a","c","t","i","v","e">>, <<"i","b","_">>, <<"i","b","k","r">>} : Contains(filename, hint) THEN "interactive_brokers"
    ELSE IF \E hint \in {<<"m","e","t","a","t","r","a","d","e","r">>, <<"m","t","4">>, <<"m","t","5">>} : Contains(filename, hint) THEN "metatrader4"
    ELSE IF Contains(filename, <<"b","i","n","a","n","c","e">>) THEN "binance"
    ELSE IF \E hint \in {<<"n","i","n","j","a">>, <<"n","i","n","j","a","t","r","a","d","e","r">>, <<"n","t","8">>} : Contains(filename, hint) THEN "ninja_trader"
    ELSE IF Contains(filename, <<"t","r","a","d","o","v","a","t","e">>) THEN "tradovate"
    ELSE IF lines = None THEN "generic"
    ELSE detect_broker_from_content(first_lines(lines[1]))

\* ParserFactory.detect_broker; file_path stands for the stem of the path
\* and the lines of the file it names, each with its line end.
detect_broker(file_path) == ByName(Lower(file_path.stem), file_path.lines)

(* --------------------------- src/parsers/base.py: the row loop -------- *)
\* ParserResult(trades=TradeCollection(...), total_rows=len(df)). The errors
\* are kept as the sequence of their row numbers, the warnings as a count;
\* raised tells that the parse ended in an exception and returned nothing.
NewResult(total_rows) ==
    [raised |-> FALSE, trades |-> <<>>, errors |-> <<>>, warnings |-> 0,
     total_rows |-> total_rows, parsed_successfully |-> 0, skipped_rows |-> 0]

add_error(res, row_number) == [res EXCEPT !.errors = Append(@, row_number)]

\* The parser classes' overrides, selected by the class of the instance.
_check_required_columns(self, columns) ==
    IF self.broker = "interactive_brokers" THEN IB_check_required_columns(columns)
    ELSE IF self.broker = "binance" THEN Binance_check_required_columns(columns)
    ELSE IF self.broker = "tradovate" THEN Tradovate_check_required_columns(columns)
    ELSE IF self.broker = "metatrader4" THEN MT_check_required_columns(columns)
    ELSE IF self.broker = "ninja_trader" THEN NT_check_required_columns(columns)
    ELSE Base_check_required_columns(Generic_REQUIRED_COLUMNS, Generic_COLUMN_MAPPING,
                                     LowerNames(columns))

COLUMN_MAPPING(self) ==
    IF self.broker = "interactive_brokers" THEN IB_COLUMN_MAPPING
    ELSE IF self.broker = "binance" THEN Binance_COLUMN_MAPPING
    ELSE IF self.broker = "tradovate" THEN Tradovate_COLUMN_MAPPING
    ELSE IF self.broker = "metatrader4" THEN MT_COLUMN_MAPPING
    ELSE IF self.broker = "ninja_trader" THEN NT_COLUMN_MAPPING
    ELSE Generic_COLUMN_MAPPING

_normalize_dataframe(self, df) ==
    IF self.broker = "interactive_brokers" THEN IB_normalize_dataframe(df) ELSE df

_parse_row(self, columns, row) ==
    IF self.broker = "interactive_brokers" THEN IB_parse_row(columns, row)
    ELSE IF self.broker = "binance" THEN Binance_parse_row(columns, row)
    ELSE IF self.broker = "tradovate" THEN Tradovate_parse_row(columns, row)
    ELSE IF self.broker = "metatrader4" THEN MT_parse_row(columns, row)
    ELSE IF self.broker = "ninja_trader" THEN NT_parse_row(columns, row)
    ELSE Generic_parse_row(columns, row)

\* The body of the for-loop of BaseParser._parse_dataframe for one row, out
\* being what _parse_row does with the row.
RowStep(self, res, row_num, row, out) ==
    IF _is_empty_row(row) THEN [res EXCEPT !.skipped_rows = @ + 1]
    ELSE IF out.tag = "trade"
    THEN [res EXCEPT !.trades = Append(@,
                        [out.trade[1] EXCEPT !.account_id = self.account_id,
                                             !.broker_name = Some(self.broker)]),
                     !.parsed_successfully = @ + 1]
    ELSE IF out.tag = "none" THEN [res EXCEPT !.skipped_rows = @ + 1]
    ELSE add_error(res, row_num)

\* The for-loop; rows[i] has index i - 1 and row number index + 2.
RECURSIVE RowLoop(_, _, _, _)
RowLoop(self, df, i, res) ==
    IF i > Len(df.rows) THEN res
    ELSE RowLoop(self, df, i + 1,
                 RowStep(self, res, (i - 1) + 2, df.rows[i],
                         _parse_row(self, df.columns, df.rows[i])))

\* result.trades.trades.sort(key=lambda t: t.entry_time)
SortTrades(res) == [res EXCEPT !.trades = StableSort(@, LAMBDA t : t.entry_time)]

\* _parse_dataframe after the column names were stripped.
ParseColumns(self, columns, rows) ==
    IF _check_required_columns(self, columns) # {}
    THEN add_error(NewResult(Len(rows)), 0)
    ELSE SortTrades(RowLoop(self,
            _normalize_dataframe(self,
                [columns |-> _apply_column_mapping(COLUMN_MAPPING(self), columns),
                 rows |-> rows]),
            1, NewResult(Len(rows))))

\* BaseParser._parse_dataframe
Base_parse_dataframe(self, df) ==
    ParseColumns(self, [p \in 1..Len(df.columns) |-> Strip(df.columns[p])], df.rows)

\* BinanceParser._parse_dataframe, base being the result of
\* super()._parse_dataframe.
Binance_parse_dataframe(self, base) ==
    IF self.aggregate_fills /\ base.trades # <<>>
    THEN [base EXCEPT !.trades = _aggregate_fills(base.trades), !.warnings = @ + 1]
    ELSE base

(* --------------------------- src/parsers/tradovate.py: order history -- *)
\* open_positions[key].append(fill), the dict being the sequence of its
\* items in insertion order. The key f"{symbol}_{direction}" is kept as the
\* pair, which it determines.
Stored(st, key, fill, at) ==
    IF at = {}
    THEN [st EXCEPT !.open_positions = Append(@, [key |-> key, fills |-> <<fill>>])]
    ELSE [st EXCEPT !.open_positions[SetMin(at)].fills = Append(@, fill)]

Store(st, key, fill) ==
    Stored(st, key, fill, {k \in 1..Len(st.open_positions) : st.open_positions[k].key = key})

\* One pass of the first loop of _parse_order_history on the values read
\* from the row: a skip, an error, or one more fill under its key.
OrderStep(st, row_num, symbol_raw, action, quantity, price, trade_time, commission) ==
    IF isna(symbol_raw) THEN st
    ELSE IF ~Contains(action, <<"b","u","y">>) /\ ~Contains(action, <<"s","e","l","l">>) THEN st
    ELSE IF ~quantity.ok THEN [st EXCEPT !.res = add_error(@, row_num)]
    ELSE IF ~price.ok THEN [st EXCEPT !.res = add_error(@, row_num)]
    ELSE IF price.v <= 0 \/ quantity.v <= 0 THEN st
    ELSE IF ~trade_time.ok THEN [st EXCEPT !.res = add_error(@, row_num)]
    ELSE IF ~commission.ok THEN [st EXCEPT !.res = add_error(@, row_num)]
    ELSE Store(st,
               <<Tradovate_normalize_symbol(CellStr(symbol_raw)),
                 IF Contains(action, <<"b","u","y">>) THEN "long" ELSE "short">>,
               [time |-> trade_time.v, price |-> price.v, quantity |-> quantity.v,
                commission |-> commission.v,
                direction |-> IF Contains(action, <<"b","u","y">>) THEN "long" ELSE "short",
                symbol |-> Tradovate_normalize_symbol(CellStr(symbol_raw))])

OrderRow(columns, row, row_num, st) ==
    OrderStep(st, row_num,
        RowGet(columns, row, <<<<"s","y","m","b","o","l">>>>, Str(<<>>)),
        Lower(CellStr(RowGet(columns, row, <<<<"d","i","r","e","c","t","i","o","n">>, <<"a","c","t","i","o","n">>>>, Str(<<>>)))),
        Magnitude(_parse_decimal(RowGet(columns, row,
                                        <<<<"q","u","a","n","t","i","t","y">>, <<"f","i","l","l","e","d","q","t","y">>>>, Num(1)))),
        _parse_decimal(RowGet(columns, row, <<<<"p","r","i","c","e">>, <<"a","v","g","f","i","l","l","p","r","i","c","e">>>>, Num(0))),
        _parse_datetime(RowGet(columns, row, <<<<"d","a","t","e","t","i","m","e">>, <<"t","i","m","e","s","t","a","m","p">>>>, Str(<<>>))),
        OptionalDecimal(RowGet(columns, row, <<<<"c","o","m","m","i","s","s","i","o","n">>>>, NaN)))

RECURSIVE OrderLoop(_, _, _, _)
OrderLoop(columns, rows, i, st) ==
    IF i > Len(rows) THEN st
    ELSE OrderLoop(columns, rows, i + 1, OrderRow(columns, rows[i], (i - 1) + 2, st))

\* The Trade(...) built from one fill, and from an entry and an exit fill.
OpenFromFill(fill) ==
    MakeTrade(OpenArgs(fill.symbol, fill.direction, fill.time, fill.price,
                       fill.quantity, fill.commission))

ClosedFromPair(entry, exit_fill) ==
    MakeTrade(ClosedArgs(entry.symbol, entry.direction, entry.time, exit_fill.time,
                         entry.price, exit_fill.price, entry.quantity,
                         entry.commission + exit_fill.commission))

\* for i in range(0, len(fills) - 1, 2) on the sorted fills: the range has
\* len(fills) div 2 elements.
PairSorted(sorted) ==
    [k \in 1..(Len(sorted) \div 2) |->
        IF 2 * (k - 1) + 1 < Len(sorted)
        THEN ClosedFromPair(sorted[2 * (k - 1) + 1], sorted[2 * (k - 1) + 2])
        ELSE OpenFromFill(sorted[2 * (k - 1) + 1])]

\* Variant of PairFills that pairs the fills in their arrival order; C29 must
\* tell it apart.
PairFills_arrival(group) ==
    IF Len(group) < 2 THEN <<OpenFromFill(group[1])>>
    ELSE PairSorted(group)

\* The body of the second loop for one key: the trades it appends, in order.
PairFills(group) ==
    IF Len(group) < 2 THEN <<OpenFromFill(group[1])>>
    ELSE PairSorted(StableSort(group, LAMBDA x : x.time))

RECURSIVE EmitLoop(_, _)
EmitLoop(open_positions, k) ==
    IF k > Len(open_positions) THEN <<>>
    ELSE PairFills(open_positions[k].fills) \o EmitLoop(open_positions, k + 1)

\* The result once every key was paired. A Trade(...) that fails validation
\* in the second loop is outside any try: the parse raises.
Emitted(res, made) ==
    IF \E k \in 1..Len(made) : made[k].tag = "error"
    THEN [NewResult(res.total_rows) EXCEPT !.raised = TRUE]
    ELSE [res EXCEPT !.trades = [k \in 1..Len(made) |-> made[k].trade[1]],
                     !.parsed_successfully = Len(made)]

PairAll(st) == Emitted(st.res, EmitLoop(st.open_positions, 1))

\* TradovateParser._parse_order_history
_parse_order_history(self, df) ==
    PairAll(OrderLoop(_apply_column_mapping(Tradovate_COLUMN_MAPPING, df.columns),
                      df.rows, 1,
                      [res |-> NewResult(Len(df.rows)), open_positions |-> <<>>]))

\* parser._parse_dataframe(df) for the class of the instance: Tradovate's
\* dispatch on the detected format, Binance's aggregation after the base loop.
_parse_dataframe(self, df) ==
    IF self.broker = "tradovate" /\ _detect_format(df.columns) = "order_history"
    THEN _parse_order_history(self, df)
    ELSE IF self.broker = "binance"
    THEN Binance_parse_dataframe(self, Base_parse_dataframe(self, df))
    ELSE Base_parse_dataframe(self, df)

\* Variant of AfterParse in which an order-history parse leaves its pairing
\* map on the instance; C24 must tell it apart.
AfterParse_pending(self, df) ==
    IF self.broker = "tradovate" /\ _detect_format(df.columns) = "order_history"
    THEN [self EXCEPT !._pending_trades =
             OrderLoop(_apply_column_mapping(Tradovate_COLUMN_MAPPING, df.columns), df.rows, 1,
                       [res |-> NewResult(Len(df.rows)), open_positions |-> <<>>]).open_positions]
    ELSE self

\* The parser instance after _parse_dataframe(df): no statement of a parse
\* assigns to an attribute of self (account_id, aggregate_fills and
\* _pending_trades are written by __init__ only; the pairing map of an order
\* history is the local open_positions).
AfterParse(self, df) == self

(* --------------------------- parsers: inputs -------------------------- *)
\* Parser(account_id) instances; aggregate_fills is BinanceParser's flag.
ParserInputs ==
    {[broker |-> "interactive_brokers", account_id |-> None, aggregate_fills |-> FALSE, _pending_trades |-> <<>>],
     [broker |-> "binance", account_id |-> Some("U1"), aggregate_fills |-> TRUE, _pending_trades |-> <<>>],
     [broker |-> "binance", account_id |-> Some("U1"), aggregate_fills |-> FALSE, _pending_trades |-> <<>>],
     [broker |-> "tradovate", account_id |-> Some("U1"), aggregate_fills |-> FALSE, _pending_trades |-> <<>>],
     [broker |-> "metatrader4", account_id |-> Some("U1"), aggregate_fills |-> FALSE, _pending_trades |-> <<>>],
     [broker |-> "ninja_trader", account_id |-> Some("U1"), aggregate_fills |-> FALSE, _pending_trades |-> <<>>],
     [broker |-> "generic", account_id |-> None, aggregate_fills |-> FALSE, _pending_trades |-> <<>>]}

\* Header lines. Every modelled file has the seven columns time, instrument,
\* side, size, price, profit (order status in an order history) and fee, in
\* that order; an Interactive Brokers statement may lead with a Header column.
IBColumns == <<<<"D","a","t","e","/","T","i","m","e">>, <<"S","y","m","b","o","l">>, <<"B","u","y","/","S","e","l","l">>, <<"Q","u","a","n","t","i","t","y">>, <<"T","."," ","P","r","i","c","e">>,
               <<"R","e","a","l","i","z","e","d"," ","P","/","L">>, <<"C","o","m","m","/","F","e","e">>>>

BinanceColumns == <<<<"D","a","t","e">>, <<"S","y","m","b","o","l">>, <<"S","i","d","e">>, <<"Q","u","a","n","t","i","t","y">>, <<"P","r","i","c","e">>,
                    <<"R","e","a","l","i","z","e","d"," ","P","r","o","f","i","t">>, <<"C","o","m","m","i","s","s","i","o","n">>>>

BreakdownColumns == <<<<"D","a","t","e">>, <<"C","o","n","t","r","a","c","t">>, <<"B","/","S">>, <<"Q","t","y">>, <<"P","r","i","c","e">>, <<"P","&","L">>,
                      <<"C","o","m","m","i","s","s","i","o","n">>>>

OrderColumns == <<<<"T","i","m","e","s","t","a","m","p">>, <<"C","o","n","t","r","a","c","t">>, <<"A","c","t","i","o","n">>, <<"f","i","l","l","e","d","Q","t","y">>,
                  <<"a","v","g","F","i","l","l","P","r","i","c","e">>, <<"o","r","d","S","t","a","t","u","s">>, <<"C","o","m","m","i","s","s","i","o","n">>>>

\* A breakdown whose instrument column has a name the parser does not know.
UnknownColumns == <<<<"D","a","t","e">>, <<"T","i","c","k","e","r">>, <<"B","/","S">>, <<"Q","t","y">>, <<"P","r","i","c","e">>, <<"P","&","L">>,
                    <<"C","o","m","m","i","s","s","i","o","n">>>>

\* Files with an entry and an exit on one line: the generic layout under
\* its canonical names and under aliases, a MetaTrader 4 account history and
\* a NinjaTrader 8 trade performance export.
GenericColumns == <<<<"s","y","m","b","o","l">>, <<"d","i","r","e","c","t","i","o","n">>, <<"e","n","t","r","y","_","t","i","m","e">>, <<"e","x","i","t","_","t","i","m","e">>, <<"e","n","t","r","y","_","p","r","i","c","e">>, <<"e","x","i","t","_","p","r","i","c","e">>, <<"q","u","a","n","t","i","t","y">>>>

AliasColumns == <<<<"T","i","c","k","e","r">>, <<"S","i","d","e">>, <<"O","p","e","n","_","T","i","m","e">>, <<"C","l","o","s","e","_","T","i","m","e">>, <<"O","p","e","n","_","P","r","i","c","e">>, <<"C","l","o","s","e","_","P","r","i","c","e">>, <<"S","i","z","e">>>>

MTColumns == <<<<"T","i","c","k","e","t">>, <<"O","p","e","n"," ","T","i","m","e">>, <<"T","y","p","e">>, <<"S","i","z","e">>, <<"S","y","m","b","o","l">>, <<"P","r","i","c","e">>, <<"C","l","o","s","e"," ","T","i","m","e">>, <<"C","l","o","s","e"," ","P","r","i","c","e">>>>

NTColumns == <<<<"I","n","s","t","r","u","m","e","n","t">>, <<"M","a","r","k","e","t"," ","p","o","s",".">>, <<"Q","u","a","n","t","i","t","y">>, <<"E","n","t","r","y"," ","p","r","i","c","e">>, <<"E","x","i","t"," ","p","r","i","c","e">>, <<"E","n","t","r","y"," ","t","i","m","e">>, <<"E","x","i","t"," ","t","i","m","e">>>>

Headers(broker) ==
    IF broker = "interactive_brokers" THEN {IBColumns, <<<<"H","e","a","d","e","r">>>> \o IBColumns}
    ELSE IF broker = "binance" THEN {BinanceColumns}
    ELSE IF broker = "tradovate" THEN {BreakdownColumns, OrderColumns, UnknownColumns}
    ELSE IF broker = "metatrader4" THEN {MTColumns}
    ELSE IF broker = "ninja_trader" THEN {NTColumns}
    ELSE {GenericColumns, AliasColumns}

Row(t, symbol, side, size, price, profit, fee) == <<t, symbol, side, size, price, profit, fee>>

EmptyRow == Row(NaN, NaN, NaN, NaN, NaN, NaN, NaN)

IBRows ==
    {Row(Time(At(0, 10, 0, 0)), Str(<<"A","A","P","L">>), NaN, Num(2), Num(10), NaN, Num(-1)),
     Row(Time(At(0, 9, 0, 0)), Str(<<"A","A","P","L"," ","N","A","S","D","A","Q">>), NaN, Num(-2), Num(12), Num(4), Num(-1)),
     Row(Time(At(0, 11, 0, 0)), Str(<<"M","S","F","T">>), Str(<<"B","O","T">>), Num(3), Num(9), Num(-4), NaN),
     Row(Str(<<"D","a","t","e","/","T","i","m","e">>), Str(<<"S","y","m","b","o","l">>), Str(<<"B","u","y","/","S","e","l","l">>), Str(<<"Q","u","a","n","t","i","t","y">>),
         Str(<<"T","."," ","P","r","i","c","e">>), Str(<<"R","e","a","l","i","z","e","d"," ","P","/","L">>), Str(<<"C","o","m","m","/","F","e","e">>)),
     Row(NaN, Str(<<"M","S","F","T">>), NaN, NaN, NaN, NaN, NaN),
     Row(Time(At(0, 10, 0, 0)), Str(<<"A","A","P","L">>), NaN, Num(0), Num(10), NaN, NaN),
     Row(Time(At(0, 10, 0, 0)), Str(<<"A","A","P","L">>), NaN, Num(2), Num(0), NaN, NaN),
     EmptyRow}

\* With a Header column, the embedded header lines say "Header" there and
\* the other lines "Data".
IBTaggedRows ==
    {<<IF r[2] = Str(<<"S","y","m","b","o","l">>) THEN Str(<<"H","e","a","d","e","r">>) ELSE Str(<<"D","a","t","a">>)>> \o r :
        r \in IBRows \ {EmptyRow}}

BinanceRows ==
    {Row(Time(At(0, 10, 0, 59)), Str(<<"B","T","C","U","S","D","T">>), Str(<<"B","U","Y">>), Num(1), Num(10), NaN, Num(0)),
     Row(Time(At(0, 10, 1, 30)), Str(<<"B","T","C","U","S","D","T">>), Str(<<"B","U","Y">>), Num(3), Num(40), NaN, Num(1)),
     Row(Time(At(0, 10, 1, 0)), Str(<<" ","b","t","c","u","s","d","t">>), Str(<<"B","U","Y">>), Num(1), Num(20), NaN,
         Str(<<"1"," ","B","N","B">>)),
     Row(Time(At(0, 10, 1, 0)), Str(<<"E","T","H","U","S","D","T">>), Str(<<"S","E","L","L">>), Num(2), Num(10), Num(4), Num(1)),
     Row(Time(At(0, 10, 1, 0)), Str(<<"E","T","H","U","S","D","T">>), Str(<<"S","E","L","L">>), Num(1), Num(10), Num(-20), Num(1)),
     Row(Time(At(0, 10, 1, 0)), Str(<<"B","T","C","U","S","D","T">>), Str(<<"B","U","Y">>), Num(1), Num(0), NaN, NaN),
     Row(Str(<<"n","/","a">>), Str(<<"B","T","C","U","S","D","T">>), Str(<<"H","O","L","D">>), Num(1), Num(10), NaN, NaN),
     EmptyRow}

BreakdownRows ==
    {Row(Time(At(0, 10, 0, 0)), Str(<<"E","S","H","4">>), Str(<<"B","u","y">>), Num(2), Num(10), NaN, Num(1)),
     Row(Time(At(0, 11, 0, 0)), Str(<<"E","S","H","4">>), Str(<<"S","e","l","l">>), Num(2), Num(12), Num(4), Num(-1)),
     Row(Time(At(0, 9, 0, 0)), Str(<<"n","q","z","2","3">>), Str(<<" ","B"," ">>), Str(<<"1">>), Str(<<"$","1",",","0","0","0">>),
         Num(-3), NaN),
     Row(Time(At(0, 10, 0, 0)), Str(<<"E","S","H","4">>), Str(<<"B","u","y">>), Num(1), Num(5), Num(9), Num(0)),
     Row(Time(At(0, 10, 0, 0)), Str(<<"E","S","H","4">>), Str(<<"B","u","y">>), Num(1), Num(0), NaN, NaN),
     Row(Time(At(0, 10, 0, 0)), Str(<<"E","S","H","4">>), Str(<<"E","x","i","t">>), Num(1), Num(10), NaN, NaN),
     Row(Str(<<"n","/","a">>), Str(<<"E","S","H","4">>), Str(<<"B","u","y">>), Num(1), Num(10), NaN, NaN),
     EmptyRow}

OrderRows ==
    {Row(Time(At(0, 10, 0, 0)), Str(<<"E","S","H","4">>), Str(<<"B","u","y">>), Num(1), Num(10),
         Str(<<"F","i","l","l","e","d">>), Num(1)),
     Row(Time(At(0, 11, 0, 0)), Str(<<"E","S","H","4">>), Str(<<"B","u","y">>), Num(1), Num(12),
         Str(<<"F","i","l","l","e","d">>), Num(1)),
     Row(Time(At(0, 12, 0, 0)), Str(<<"E","S","H","4">>), Str(<<"B","u","y">>), Num(2), Num(11),
         Str(<<"F","i","l","l","e","d">>), NaN),
     Row(Time(At(0, 9, 0, 0)), Str(<<"N","Q","H","4">>), Str(<<"B","u","y">>), Num(1), Num(20),
         Str(<<"F","i","l","l","e","d">>), NaN),
     Row(Time(At(0, 11, 0, 0)), Str(<<"E","S","H","4">>), Str(<<"S","e","l","l">>), Num(1), Num(13),
         Str(<<"F","i","l","l","e","d">>), Num(1)),
     Row(Time(At(0, 10, 0, 0)), Str(<<"E","S","H","4">>), Str(<<"B","u","y">>), Num(1), Str(<<"a","b","c">>),
         Str(<<"F","i","l","l","e","d">>), NaN),
     Row(Time(At(0, 10, 0, 0)), Str(<<"E","S","H","4">>), Str(<<"M","o","d","i","f","y">>), Num(1), Num(10),
         Str(<<"C","a","n","c","e","l","e","d">>), NaN),
     Row(Time(At(0, 10, 0, 0)), Str(<<" ">>), Str(<<"B","u","y">>), Num(1), Num(10),
         Str(<<"F","i","l","l","e","d">>), NaN),
     Row(NaN, NaN, Str(<<"B","u","y">>), NaN, NaN, NaN, NaN)}

\* symbol, direction, entry_time, exit_time, entry_price, exit_price,
\* quantity.
GenericRows ==
    {<<Str(<<"A","A","P","L">>), Str(<<"l","o","n","g">>), Time(At(0, 10, 0, 0)), Time(At(0, 11, 0, 0)), Num(10), Num(12), Num(2)>>,
     <<Str(<<"M","S","F","T">>), Str(<<"s","e","l","l">>), Time(At(0, 9, 0, 0)), NaN, Num(10), NaN, Num(1)>>,
     <<Str(<<"A","A","P","L">>), Str(<<"b","u","y">>), Time(At(0, 10, 0, 0)), Time(At(0, 11, 0, 0)), Num(10), Num(0), Num(1)>>,
     <<Str(<<"A","A","P","L">>), Str(<<"b","u","y">>), Time(At(0, 11, 0, 0)), Time(At(0, 10, 0, 0)), Num(10), Num(12), Num(1)>>,
     <<Str(<<" ">>), Str(<<"b","u","y">>), Time(At(0, 10, 0, 0)), NaN, Num(10), NaN, Num(1)>>,
     <<Str(<<"A","A","P","L">>), Str(<<"-","1">>), Time(At(0, 10, 0, 0)), NaN, Num(10), NaN, Num(1)>>,
     <<Str(<<"A","A","P","L">>), Str(<<"b","u","y">>), Time(At(0, 10, 0, 0)), NaN, Num(-5), NaN, Num(1)>>,
     EmptyRow}

\* Ticket, Open Time, Type, Size, Symbol, Price, Close Time, Close Price.
MTRows ==
    {<<Num(1), Time(At(0, 10, 0, 0)), Str(<<"b","u","y">>), Num(1), Str(<<"E","U","R","U","S","D">>), Num(10), Time(At(0, 11, 0, 0)), Num(12)>>,
     <<Num(2), Time(At(0, 11, 0, 0)), Str(<<"s","e","l","l">>), Num(1), Str(<<"E","U","R","U","S","D">>), Num(10), Time(At(0, 10, 0, 0)), Num(12)>>,
     <<Num(3), Time(At(0, 10, 0, 0)), Str(<<"b","u","y">>), Num(1), Str(<<"E","U","R","U","S","D">>), Num(10), NaN, NaN>>,
     <<Num(4), Time(At(0, 9, 0, 0)), Str(<<"b","u","y"," ","l","i","m","i","t">>), Num(1), Str(<<"E","U","R","U","S","D">>), Num(10), NaN, NaN>>,
     <<Num(5), Time(At(0, 10, 0, 0)), Str(<<"b","u","y">>), Num(0), Str(<<"E","U","R","U","S","D">>), Num(10), NaN, NaN>>,
     <<Num(6), Time(At(0, 10, 0, 0)), Str(<<"b","u","y">>), Num(1), Str(<<"E","U","R","U","S","D">>), Num(10), Str(<<"n","/","a">>), Num(12)>>,
     <<Num(7), Time(At(0, 10, 0, 0)), Str(<<"h","o","l","d">>), Num(1), Str(<<"E","U","R","U","S","D">>), Num(10), NaN, NaN>>,
     <<NaN>> \o EmptyRow}

\* Instrument, Market pos., Quantity, Entry price, Exit price, Entry time,
\* Exit time.
NTRows ==
    {<<Str(<<"E","S"," ","0","3","-","2","4">>), Str(<<"L","o","n","g">>), Num(1), Num(10), Num(12), Time(At(0, 10, 0, 0)), Time(At(0, 11, 0, 0))>>,
     <<Str(<<"N","Q"," ","1","2","-","2","3">>), Str(<<"S","h","o","r","t">>), Num(1), Num(10), Num(12), Time(At(0, 11, 0, 0)), Time(At(0, 10, 0, 0))>>,
     <<Str(<<"E","S"," ","0","3","-","2","4">>), Str(<<"L","o","n","g">>), Num(1), Num(10), Num(12), Time(At(0, 10, 0, 0)), NaN>>,
     <<Str(<<"e","s">>), Str(<<"L","o","n","g">>), Num(1), Num(10), Num(0), Time(At(0, 10, 0, 0)), Time(At(0, 11, 0, 0))>>,
     <<Str(<<"E","S">>), Str(<<"L","o","n","g">>), Num(1), Num(10), NaN, Time(At(0, 9, 0, 0)), NaN>>,
     <<NaN, Str(<<"L","o","n","g">>), Num(1), Num(10), Num(12), Time(At(0, 10, 0, 0)), Time(At(0, 11, 0, 0))>>,
     <<Str(<<"E","S">>), Str(<<"L","o","n","g">>), Num(1), Num(0), Num(12), Time(At(0, 10, 0, 0)), Time(At(0, 11, 0, 0))>>,
     EmptyRow}

RowInputs(columns) ==
    IF columns = IBColumns THEN IBRows
    ELSE IF columns \in {GenericColumns, AliasColumns} THEN GenericRows
    ELSE IF columns = MTColumns THEN MTRows
    ELSE IF columns = NTColumns THEN NTRows
    ELSE IF columns = <<<<"H","e","a","d","e","r">>>> \o IBColumns THEN IBTaggedRows
    ELSE IF columns = BinanceColumns THEN BinanceRows
    ELSE IF columns = OrderColumns THEN OrderRows
    ELSE BreakdownRows

(* --------------------------- parsers: state machine ------------------- *)
\* Parser(account_id=...)
Construct(p) ==
    /\ parser = None
    /\ parser' = Some(p)
    /\ UNCHANGED <<served, tagged, call, file, result, fills, aggregated, collection, summary, dbTrades, stats>>

\* The header line of the file is read.
ReadHeader(columns) ==
    /\ parser # None
    /\ file = None
    /\ columns \in Headers(parser[1].broker)
    /\ file' = Some([columns |-> columns, rows |-> <<>>])
    /\ UNCHANGED <<served, tagged, call, parser, result, fills, aggregated, collection, summary, dbTrades, stats>>

\* One more data line of the file is read.
ReadRow(row) ==
    /\ file # None
    /\ result = None
    /\ Len(file[1].rows) < MaxRows
    /\ row \in RowInputs(file[1].columns)
    /\ file' = Some([file[1] EXCEPT !.rows = Append(@, row)])
    /\ UNCHANGED <<served, tagged, call, parser, result, fills, aggregated, collection, summary, dbTrades, stats>>

\* parser.parse_file / parse_string: _parse_dataframe on the frame read.
Parse ==
    /\ file # None
    /\ result = None
    /\ result' = Some(_parse_dataframe(parser[1], file[1]))
    /\ UNCHANGED <<served, tagged, call, parser, file, fills, aggregated, collection, summary, dbTrades, stats>>

AllHeaders == UNION {Headers(p.broker) : p \in ParserInputs}

AllRows == UNION {RowInputs(h) : h \in AllHeaders}

NextParse ==
    \/ \E p \in ParserInputs : Construct(p)
    \/ \E columns \in AllHeaders : ReadHeader(columns)
    \/ \E row \in AllRows : ReadRow(row)
    \/ Parse

SpecParse == Init /\ [][NextParse]_vars

(* --------------------------- parsers: one instance, several files ----- *)
MaxParses == 2

\* Files handed to one instance: every header of its broker with one data
\* line whose sixth cell is filled and, for Tradovate, order histories of two
\* filled orders.
ReuseFiles(broker) ==
    UNION {{[columns |-> h, rows |-> <<row>>] : row \in {r \in RowInputs(h) : ~isna(r[6])}} :
              h \in Headers(broker)}
    \cup (IF broker # "tradovate" THEN {}
          ELSE {[columns |-> OrderColumns, rows |-> <<r1, r2>>] :
                   r1 \in {r \in OrderRows : r[7] = Num(1)}, r2 \in {r \in OrderRows : r[7] = Num(1)}})

\* parser.parse_file(path) on an instance that may have parsed before: the
\* frame read from the file goes through _parse_dataframe.
ParseFile ==
    /\ parser # None
    /\ Len(served) < MaxParses
    /\ \E df \in ReuseFiles(parser[1].broker) :
          /\ file' = Some(df)
          /\ result' = Some(_parse_dataframe(parser[1], df))
          /\ parser' = Some(AfterParse(parser[1], df))
          /\ served' = Append(served, [self |-> parser[1], df |-> df, result |-> result'[1]])
    /\ UNCHANGED <<fills, aggregated, collection, summary, dbTrades, stats, call, tagged>>

NextReuse ==
    \/ \E p \in ParserInputs : Construct(p)
    \/ ParseFile

SpecReuse == Init /\ [][NextReuse]_vars

(* --------------------------- parsers' API: calls ---------------------- *)
\* Values of a direction cell: the keywords in several spellings, texts
\* without a keyword, an empty text and an empty cell.
DirectionInputs ==
    {Str(<<"b","u","y">>), Str(<<"l","o","n","g">>), Str(<<"b">>), Str(<<"1">>), Str(<<"c","a","l","l">>),
     Str(<<"s","e","l","l">>), Str(<<"s","h","o","r","t">>), Str(<<"s">>), Str(<<"-","1">>), Str(<<"p","u","t">>), Str(<<"s","s">>),
     Str(<<"B","U","Y">>), Str(<<" ","S","e","l","l"," ">>), Str(<<"L","O","N","G">>), Str(<<"S","h","o","r","t">>), Str(<<"P","u","t">>), Str(<<"C","A","L","L">>),
     Str(<<"h","o","l","d">>), Str(<<"n","/","a">>), Str(<<"0">>), Str(<<>>), NaN}

\* self._parse_direction(value). A run makes one call, which call records.
ParseDirection(value) ==
    /\ call = None
    /\ call' = Some([fn |-> "_parse_direction", arg |-> value, ret |-> _parse_direction(value)])
    /\ UNCHANGED <<served, tagged, parser, file, result, fills, aggregated, collection, summary, dbTrades, stats>>

\* Interactive Brokers statements of one data line, prices and P&L in cents:
\* the Buy/Sell cell empty or filled, sales and purchases of 3 and of 100
\* units, with and without a realised P&L; then lines that are no trade.
IBStatementRows ==
    {Row(Time(At(0, 10, 0, 0)), Str(<<"A","A","P","L">>), side, Num(size), Num(price), profit, NaN) :
        side \in {NaN, Str(<<"B","U","Y">>), Str(<<"S","E","L","L">>)}, size \in {-100, -3, 3, 100},
        price \in {10, 15230}, profit \in {NaN, Num(0), Num(18000), Num(-7), Num(10)}}
    \cup {Row(Time(At(0, 10, 0, 0)), Str(<<"A","A","P","L">>), NaN, Num(0), Num(15230), Num(18000), NaN),
          Row(Time(At(0, 10, 0, 0)), Str(<<"A","A","P","L">>), NaN, Num(-100), Num(0), Num(18000), NaN),
          Row(Str(<<"n","/","a">>), Str(<<"A","A","P","L">>), NaN, Num(-100), Num(15230), Num(18000), NaN),
          Row(Time(At(0, 10, 0, 0)), Str(<<" ">>), NaN, Num(-100), Num(15230), Num(18000), NaN)}

\* InteractiveBrokersParser().parse_string(csv) of a statement with the
\* header line IBColumns and the one data line row.
ParseStatement(row) ==
    /\ call = None
    /\ call' = Some([fn |-> "InteractiveBrokersParser.parse_string", arg |-> row,
                     ret |-> _parse_dataframe(
                                [broker |-> "interactive_brokers", account_id |-> None,
                                 aggregate_fills |-> FALSE, _pending_trades |-> <<>>],
                                [columns |-> IBColumns, rows |-> <<row>>])])
    /\ UNCHANGED <<served, tagged, parser, file, result, fills, aggregated, collection, summary, dbTrades, stats>>

\* Pieces of header lines: the Tradovate breakdown header and its core, two
\* NinjaTrader columns, one NinjaTrader column, an Interactive Brokers
\* column, three MetaTrader columns, two Binance columns, the Tradovate
\* performance and order columns, generic columns, and two columns that
\* several brokers share.
HeaderFragments ==
    <<<<"D","a","t","e",",","C","o","n","t","r","a","c","t",",","B","/","S",",","Q","t","y",",","P","r","i","c","e",",","P","&","L",",","C","u","m","u","l","a","t","i","v","e"," ","P","&","L",",","C","o","m","m","i","s","s","i","o","n">>, <<"C","o","n","t","r","a","c","t",",","B","/","S",",","Q","t","y">>, <<"M","A","E",",","M","F","E">>,
      <<"M","a","r","k","e","t"," ","p","o","s",".">>, <<"I","B","C","o","m","m","i","s","s","i","o","n">>, <<"T","i","c","k","e","t",",","O","p","e","n"," ","T","i","m","e",",","C","l","o","s","e"," ","T","i","m","e">>, <<"D","a","t","e","(","U","T","C",")",",","P","a","i","r">>,
      <<"s","y","m","b","o","l",",","b","u","y","P","r","i","c","e",",","s","e","l","l","P","r","i","c","e",",","b","o","u","g","h","t","T","i","m","e","s","t","a","m","p">>, <<"o","r","d","S","t","a","t","u","s",",","a","v","g","F","i","l","l","P","r","i","c","e">>,
      <<"s","y","m","b","o","l",",","d","i","r","e","c","t","i","o","n",",","e","n","t","r","y","_","t","i","m","e">>, <<"S","w","a","p",",","C","o","m","m","i","s","s","i","o","n">>>>

\* Header lines made of one fragment or of two.
HeaderLines ==
    {HeaderFragments[i] : i \in DOMAIN HeaderFragments}
    \cup {HeaderFragments[p[1]] \o <<",">> \o HeaderFragments[p[2]] :
            p \in {q \in (DOMAIN HeaderFragments) \X (DOMAIN HeaderFragments) : q[1] # q[2]}}

ContentInputs == {line \o <<"\n">> : line \in HeaderLines}

StemInputs == {<<"t","r","a","d","e","s">>, <<"P","e","r","f","o","r","m","a","n","c","e">>, <<"B","i","n","a","n","c","e","_","e","x","p","o","r","t">>, <<"m","t","4","_","h","i","s","t","o","r","y">>, <<"i","b","_","2","0","2","4">>, <<"n","i","n","j","a">>, <<"m","y","_","t","r","a","d","o","v","a","t","e">>}

\* Files of one header line, files that cannot be read, and a file whose
\* sixth line names an Interactive Brokers column.
FileInputs ==
    {[stem |-> stem, lines |-> Some(<<line>>)] : stem \in StemInputs, line \in ContentInputs}
    \cup {[stem |-> stem, lines |-> None] : stem \in StemInputs}
    \cup {[stem |-> <<"t","r","a","d","e","s">>,
           lines |-> Some(<<<<"s","y","m","b","o","l",",","d","i","r","e","c","t","i","o","n",",","e","n","t","r","y","_","t","i","m","e">> \o <<"\n">>, <<"A","A","P","L",",","b","u","y",",","1">> \o <<"\n">>,
                            <<"A","A","P","L",",","b","u","y",",","2">> \o <<"\n">>, <<"A","A","P","L",",","b","u","y",",","3">> \o <<"\n">>, <<"A","A","P","L",",","b","u","y",",","4">> \o <<"\n">>,
                            <<"I","B","C","o","m","m","i","s","s","i","o","n">> \o <<"\n">>>>)]}

\* ParserFactory.detect_broker(file_path)
DetectBroker(file_path) ==
    /\ call = None
    /\ call' = Some([fn |-> "detect_broker", arg |-> file_path, ret |-> detect_broker(file_path)])
    /\ UNCHANGED <<served, tagged, parser, file, result, fills, aggregated, collection, summary, dbTrades, stats>>

\* ParserFactory.detect_broker_from_content(content)
DetectFromContent(content) ==
    /\ call = None
    /\ call' = Some([fn |-> "detect_broker_from_content", arg |-> content,
                     ret |-> detect_broker_from_content(content)])
    /\ UNCHANGED <<served, tagged, parser, file, result, fills, aggregated, collection, summary, dbTrades, stats>>

\* Tradovate Trade Breakdown files of one data line, prices and P&L in
\* ticks: purchases and sales of one and of two contracts; the P&L cell
\* empty, blank, a number, a text with a minus sign, with a currency sigil,
\* in accounting parentheses, and no number at all.
BreakdownStatementRows ==
    {Row(Time(At(0, 10, 0, 0)), Str(<<"E","S","H","4">>), Str(side), Num(size), Num(price), profit, Num(1)) :
        side \in {<<"B","u","y">>, <<"S","e","l","l">>}, size \in {1, 2}, price \in {10, 40},
        profit \in {NaN, Str(<<" ">>), Num(0), Num(6), Num(-6), Num(-3), Num(24), Num(-24), Str(<<"-","6">>),
                    Str(<<"$","6">>), Str(<<"(","6",")">>), Str(<<"$","(","6",")">>), Str(<<"(","$","1",",","0","0","6",")">>), Str(<<"n","/","a">>)}}

\* TradovateParser().parse_string(csv) of a Trade Breakdown with the header
\* line BreakdownColumns and the one data line row.
ParseBreakdown(row) ==
    /\ call = None
    /\ call' = Some([fn |-> "TradovateParser.parse_string", arg |-> row,
                     ret |-> _parse_dataframe(
                                [broker |-> "tradovate", account_id |-> None,
                                 aggregate_fills |-> FALSE, _pending_trades |-> <<>>],
                                [columns |-> BreakdownColumns, rows |-> <<row>>])])
    /\ UNCHANGED <<served, parser, file, result, fills, aggregated, collection, summary, dbTrades, stats, tagged>>

\* Symbols as the files write them: futures contracts with an expiry in the
\* NinjaTrader and in the Tradovate notation, crypto pairs with and without
\* the slash, plain tickers; in capitals, in lower and in mixed case, with
\* and without blanks around them.
SymbolInputs ==
    {<<"E","S"," ","0","3","-","2","4">>, <<"e","s"," ","0","3","-","2","4">>, <<"E","s"," ","0","3","-","2","4">>, <<"N","Q"," ","1","2","2","3">>, <<"n","q","1","2","2","3">>, <<" ","E","S"," ","0","3","-","2","4"," ">>,
     <<"E","S","H","4">>, <<"e","s","h","4">>, <<"M","N","Q","Z","3">>, <<" ","m","n","q","z","2","3"," ">>, <<"E","S","H","H","4">>,
     <<"B","T","C","U","S","D","T">>, <<"b","t","c","u","s","d","t">>, <<"B","T","C","/","U","S","D","T">>, <<"E","T","H","B","T","C">>, <<"U","S","D","T">>, <<"B","N","B","U","S","D">>,
     <<"A","A","P","L">>, <<"a","a","p","l">>, <<" ","A","a","p","l"," ">>, <<>>}

Normalizers ==
    {"Trade.normalize_symbol", "TradovateParser._normalize_symbol",
     "NinjaTrader8Parser._normalize_symbol", "BinanceParser._normalize_symbol"}

\* The symbol normalizer of the given name applied to a string.
Normalized(fn, symbol) ==
    CASE fn = "Trade.normalize_symbol" -> normalize_symbol(symbol)
      [] fn = "TradovateParser._normalize_symbol" -> Tradovate_normalize_symbol(symbol)
      [] fn = "NinjaTrader8Parser._normalize_symbol" -> NT_normalize_symbol(symbol)
      [] OTHER -> Binance_normalize_symbol(symbol)

\* One call of a symbol normalizer.
NormalizeSymbol(fn, symbol) ==
    /\ call = None
    /\ call' = Some([fn |-> fn, arg |-> symbol, ret |-> Normalized(fn, symbol)])
    /\ UNCHANGED <<served, tagged, parser, file, result, fills, aggregated, collection, summary, dbTrades, stats>>

\* Binance trade histories of one data line, prices and profit in ticks:
\* purchases and sales of one and of two units, without and with a realised
\* profit.
BinanceStatementRows ==
    {Row(Time(At(0, 10, 0, 0)), Str(<<"B","T","C","U","S","D","T">>), Str(side), Num(size), Num(price), profit, NaN) :
        side \in {<<"B","U","Y">>, <<"S","E","L","L">>}, size \in {1, 2}, price \in {10, 40},
        profit \in {NaN, Num(0), Num(6), Num(-6), Num(-3), Num(-24)}}

\* BinanceParser().parse_string(csv) of a trade history with the header line
\* BinanceColumns and the one data line row.
ParseTradeHistory(row) ==
    /\ call = None
    /\ call' = Some([fn |-> "BinanceParser.parse_string", arg |-> row,
                     ret |-> _parse_dataframe(
                                [broker |-> "binance", account_id |-> None,
                                 aggregate_fills |-> TRUE, _pending_trades |-> <<>>],
                                [columns |-> BinanceColumns, rows |-> <<row>>])])
    /\ UNCHANGED <<served, parser, file, result, fills, aggregated, collection, summary, dbTrades, stats, tagged>>

NextCalls ==
    \/ \E value \in DirectionInputs : ParseDirection(value)
    \/ \E row \in IBStatementRows : ParseStatement(row)
    \/ \E file_path \in FileInputs : DetectBroker(file_path)
    \/ \E content \in ContentInputs : DetectFromContent(content)
    \/ \E fn \in Normalizers, symbol \in SymbolInputs : NormalizeSymbol(fn, symbol)
    \/ \E row \in BreakdownStatementRows : ParseBreakdown(row)
    \/ \E row \in BinanceStatementRows : ParseTradeHistory(row)

SpecCalls == Init /\ [][NextCalls]_vars

(* --------------------------- tags of a trade -------------------------- *)
\* str.split(","): the pieces between the commas, empty pieces included.
RECURSIVE Split(_)
Split(text) ==
    IF "," \notin Range(text) THEN <<text>>
    ELSE <<SubSeq(text, 1, SetMin({i \in 1..Len(text) : text[i] = ","}) - 1)>>
         \o Split(SubSeq(text, SetMin({i \in 1..Len(text) : text[i] = ","}) + 1, Len(text)))

\* GenericCSVParser._parse_row: tags = [t.strip().lower() for t in
\* tags_str.split(",") if t.strip()], [] for an empty cell.
Generic_tags(cell) ==
    IF isna(cell) THEN <<>>
    ELSE SelectMap(Split(CellStr(cell)), LAMBDA t : Strip(t) # <<>>, LAMBDA t : Lower(Strip(t)))

\* list.remove(x): drops the first occurrence of x.
ListRemove(list, x) ==
    [k \in 1..(Len(list) - 1) |->
        IF k < SetMin({i \in 1..Len(list) : list[i] = x}) THEN list[k] ELSE list[k + 1]]

\* Trade.add_tag
add_tag(tags, tag) ==
    IF Lower(Strip(tag)) # <<>> /\ Lower(Strip(tag)) \notin Range(tags)
    THEN Append(tags, Lower(Strip(tag)))
    ELSE tags

\* Trade.remove_tag
remove_tag(tags, tag) ==
    IF Lower(Strip(tag)) \in Range(tags) THEN ListRemove(tags, Lower(Strip(tag))) ELSE tags

\* Tags cells of a generic CSV row and tags given to add_tag and remove_tag.
TagCells ==
    {NaN, Str(<<>>), Str(<<"s","w","i","n","g">>), Str(<<"s","w","i","n","g",",","n","e","w","s">>), Str(<<"S","w","i","n","g",","," ","N","e","w","s"," ",",","g","a","p">>),
     Str(<<"s","w","i","n","g",",",",","n","e","w","s">>), Str(<<"s","w","i","n","g",",","S","w","i","n","g">>), Str(<<"n","e","w","s",","," ","s","w","i","n","g",",","n","e","w","s">>), Str(<<" ",","," ">>)}

TagInputs == {<<"s","w","i","n","g">>, <<"S","w","i","n","g">>, <<" ","s","w","i","n","g"," ">>, <<"n","e","w","s">>, <<"N","E","W","S">>, <<"g","a","p">>, <<>>, <<" ">>}

\* The Trade that GenericCSVParser._parse_row builds from a row with the
\* given tags cell; of the trade the model keeps the tags.
ParseTags(cell) ==
    /\ tagged = None
    /\ tagged' = Some([tags |-> Generic_tags(cell), op |-> "_parse_row", tag |-> <<>>])
    /\ UNCHANGED <<served, parser, file, result, fills, aggregated, collection, summary, dbTrades, stats, call>>

\* trade.add_tag(tag)
AddTag(tag) ==
    /\ tagged # None
    /\ tagged' = Some([tags |-> add_tag(tagged[1].tags, tag), op |-> "add_tag", tag |-> tag])
    /\ UNCHANGED <<served, parser, file, result, fills, aggregated, collection, summary, dbTrades, stats, call>>

\* trade.remove_tag(tag)
RemoveTag(tag) ==
    /\ tagged # None
    /\ tagged' = Some([tags |-> remove_tag(tagged[1].tags, tag), op |-> "remove_tag", tag |-> tag])
    /\ UNCHANGED <<served, parser, file, result, fills, aggregated, collection, summary, dbTrades, stats, call>>

NextTags ==
    \/ \E cell \in TagCells : ParseTags(cell)
    \/ \E tag \in TagInputs : AddTag(tag)
    \/ \E tag \in TagInputs : RemoveTag(tag)

SpecTags == Init /\ [][NextTags]_vars

(* --------------------------- parsers: properties ---------------------- *)
\* C1 (as claimed): every returned result satisfies parsed_successfully +
\* skipped_rows + (number of errors with row_number > 0) = total_rows, the
\* number of data rows of the file.
C1_CounterIdentity ==
    (result # None /\ ~result[1].raised) =>
        result[1].parsed_successfully + result[1].skipped_rows
            + Len(Filter(result[1].errors, LAMBDA row_number : row_number > 0))
          = Len(file[1].rows)

\* C2 (as claimed): the trades of every returned result are non-decreasing
\* in entry_time.
C2_SortInvariant ==
    (result # None /\ ~result[1].raised) =>
        \A i \in 1..(Len(result[1].trades) - 1) :
            result[1].trades[i].entry_time <= result[1].trades[i + 1].entry_time

\* The fills an order history parse accepted, per key in first-seen order.
AcceptedFills ==
    OrderLoop(_apply_column_mapping(Tradovate_COLUMN_MAPPING, file[1].columns),
              file[1].rows, 1,
              [res |-> NewResult(Len(file[1].rows)), open_positions |-> <<>>]).open_positions

\* The trades of the result with the group's symbol and direction that have
\* the given status, in output order.
TradesOf(key, status) ==
    Filter(result[1].trades,
           LAMBDA t : t.symbol = key[1] /\ t.direction = key[2] /\ t.status = status)

\* The group of n time-sorted fills became n div 2 closed trades, the k-th
\* from fills 2k and 2k+1, and one open trade from the last fill when n is
\* odd, none when n is even.
PairedInOrder(key, sorted) ==
    /\ Len(TradesOf(key, "closed")) = Len(sorted) \div 2
    /\ \A k \in 1..(Len(sorted) \div 2) :
         /\ TradesOf(key, "closed")[k].entry_time = sorted[2 * k - 1].time
         /\ TradesOf(key, "closed")[k].entry_price = sorted[2 * k - 1].price
         /\ TradesOf(key, "closed")[k].exit_time = Some(sorted[2 * k].time)
         /\ TradesOf(key, "closed")[k].exit_price = Some(sorted[2 * k].price)
    /\ Len(TradesOf(key, "open")) = Len(sorted) % 2
    /\ Len(sorted) % 2 = 1 =>
         /\ TradesOf(key, "open")[1].entry_time = sorted[Len(sorted)].time
         /\ TradesOf(key, "open")[1].entry_price = sorted[Len(sorted)].price

\* C3 (as claimed): in a Tradovate order history parse every (symbol,
\* direction) group of n >= 1 accepted fills, sorted by time, yields exactly
\* n div 2 closed trades (entry fill 2k, exit fill 2k+1) and, when n is odd,
\* exactly one open trade built from the unmatched last fill.
C3_OrderHistoryPairing ==
    (/\ result # None
     /\ parser[1].broker = "tradovate"
     /\ _detect_format(file[1].columns) = "order_history"
     /\ ~result[1].raised) =>
        \A g \in 1..Len(AcceptedFills) :
            PairedInOrder(AcceptedFills[g].key,
                          StableSort(AcceptedFills[g].fills, LAMBDA x : x.time))


\* C11 (as claimed): every trade with status closed in a returned result,
\* whichever parser produced it, has an exit_time that is not before its
\* entry_time and an exit_price greater than zero.
C11_ClosedTradeInvariant ==
    (result # None /\ ~result[1].raised) =>
        \A i \in 1..Len(result[1].trades) :
            result[1].trades[i].status = "closed" =>
                /\ result[1].trades[i].exit_time # None
                /\ result[1].trades[i].exit_time[1] >= result[1].trades[i].entry_time
                /\ result[1].trades[i].exit_price # None
                /\ result[1].trades[i].exit_price[1] > 0

\* C12 (as claimed): in every returned result a trade has an exit_time
\* exactly when its status is not open, and an exit_price exactly when its
\* status is not open.
C12_ExitPresence ==
    (result # None /\ ~result[1].raised) =>
        \A i \in 1..Len(result[1].trades) :
            /\ (result[1].trades[i].exit_time # None) <=> (result[1].trades[i].status # "open")
            /\ (result[1].trades[i].exit_price # None) <=> (result[1].trades[i].status # "open")

\* The keywords as the specification lists them.
C13_LongKeywords == {<<"b","u","y">>, <<"l","o","n","g">>, <<"b">>, <<"1">>, <<"c","a","l","l">>}

C13_ShortKeywords == {<<"s","e","l","l">>, <<"s","h","o","r","t">>, <<"s">>, <<"-","1">>, <<"p","u","t">>, <<"s","s">>}

\* The value of the call, stripped and lower-cased, is text.
C13_Says(text) ==
    /\ text \in C13_LongKeywords => call[1].ret.ok /\ call[1].ret.v = "long"
    /\ text \in C13_ShortKeywords => call[1].ret.ok /\ call[1].ret.v = "short"
    /\ (\A kw \in C13_LongKeywords \cup C13_ShortKeywords : ~Contains(text, kw)) => ~call[1].ret.ok

\* C13 (as claimed): _parse_direction returns long for every long keyword
\* (buy, long, b, 1, call), short for every short keyword (sell, short, s,
\* -1, put, ss), whatever the case of the letters, and raises for a value
\* that contains none of the keywords.
C13_DirectionNormalization ==
    (call # None /\ call[1].fn = "_parse_direction" /\ ~isna(call[1].arg)) =>
        C13_Says(Lower(Strip(call[1].arg.s)))

\* diff is pnl / quantity, rounded to the nearest unit of the price.
C14_PerUnit(diff, pnl, quantity) == 2 * Abs(diff * quantity - pnl) <= quantity

\* The trade t made from the statement line row (time, symbol, Buy/Sell,
\* quantity, price, realised P&L, fee).
C14_Trade(row, t) ==
    /\ t.quantity = Abs(row[4].v)
    /\ isna(row[3]) => t.direction = (IF row[4].v > 0 THEN "long" ELSE "short")
    /\ IF ~isna(row[6]) /\ row[6].v # 0
       THEN /\ t.status = "closed"
            /\ t.exit_price = Some(row[5].v)
            /\ t.entry_time = row[1].v
            /\ t.exit_time = Some(row[1].v)
            /\ C14_PerUnit(IF t.direction = "long" THEN row[5].v - t.entry_price
                           ELSE t.entry_price - row[5].v,
                           row[6].v, t.quantity)
       ELSE /\ t.status = "open"
            /\ t.entry_price = row[5].v
            /\ t.entry_time = row[1].v
            /\ t.exit_price = None
            /\ t.exit_time = None

\* A line with a symbol, a time, a quantity other than zero and a positive
\* price.
C14_ValidRow(row) ==
    /\ row[1].kind = "time"
    /\ Strip(row[2].s) # <<>>
    /\ row[4].v # 0
    /\ row[5].v > 0

\* C14: an Interactive Brokers row with a realised P&L other than zero
\* yields a closed trade with exit_price = row price, entry_time = exit_time
\* = row time and entry_price = price - P&L/|qty| when long, price +
\* P&L/|qty| when short (the quotient rounded to a unit of the price); any
\* other valid row yields an open trade at the row price; without a Buy/Sell
\* text a positive quantity gives long and a negative one short; the trade's
\* quantity is the absolute value.
C14_IBRowSemantics ==
    (call # None /\ call[1].fn = "InteractiveBrokersParser.parse_string"
        /\ C14_ValidRow(call[1].arg)) =>
        /\ Len(call[1].ret.trades) = 1
        /\ C14_Trade(call[1].arg, call[1].ret.trades[1])

\* The row of the scenario, in cents: AAPL, no Buy/Sell text, quantity -100,
\* price 152.30, realised P&L 180.00.
C15_Row == Row(Time(At(0, 10, 0, 0)), Str(<<"A","A","P","L">>), NaN, Num(-100), Num(15230), Num(18000), NaN)

C15_Parsed == call # None /\ call[1].fn = "InteractiveBrokersParser.parse_string" /\ call[1].arg = C15_Row

\* C15: the row yields exactly one closed short trade with the entry price
\* 150.50.
C15_IBRealizedClaimed ==
    C15_Parsed =>
        /\ Len(call[1].ret.trades) = 1
        /\ call[1].ret.trades[1].status = "closed"
        /\ call[1].ret.trades[1].direction = "short"
        /\ call[1].ret.trades[1].entry_price = 15050

\* C16 (as claimed): a file whose header line is
\* Date,Contract,B/S,Qty,Price,P&L,Cumulative P&L,Commission is routed to
\* Tradovate by detect_broker whatever its file name, also when the name
\* holds another broker's hint.
C16_DetectorPrecedence ==
    (/\ call # None /\ call[1].fn = "detect_broker"
     /\ call[1].arg.lines # None
     /\ call[1].arg.lines[1][1] = <<"D","a","t","e",",","C","o","n","t","r","a","c","t",",","B","/","S",",","Q","t","y",",","P","r","i","c","e",",","P","&","L",",","C","u","m","u","l","a","t","i","v","e"," ","P","&","L",",","C","o","m","m","i","s","s","i","o","n">> \o <<"\n">>) =>
        call[1].ret = "tradovate"

\* The order of the tests as the specification gives it.
C17_Claimed(content_lower) ==
    IF \E sig \in ib_signatures : Contains(content_lower, sig) THEN "interactive_brokers"
    ELSE IF \/ /\ Contains(content_lower, <<"c","o","n","t","r","a","c","t">>)
               /\ Contains(content_lower, <<"b","/","s">>)
               /\ Contains(content_lower, <<"q","t","y">>)
            \/ /\ Contains(content_lower, <<"b","u","y","p","r","i","c","e">>)
               /\ Contains(content_lower, <<"s","e","l","l","p","r","i","c","e">>)
               /\ Contains(content_lower, <<"b","o","u","g","h","t","t","i","m","e","s","t","a","m","p">>)
    THEN "tradovate"
    ELSE IF Hits(content_lower, nt_signatures) >= 2 THEN "ninja_trader"
    ELSE IF Hits(content_lower, tradovate_signatures) >= 2 THEN "tradovate"
    ELSE IF Hits(content_lower, mt_signatures) >= 3 THEN "metatrader4"
    ELSE IF Hits(content_lower, binance_signatures) >= 2 THEN "binance"
    ELSE "generic"

\* C17 (as claimed): detect_broker_from_content returns Interactive Brokers
\* if any of its signatures occurs; otherwise Tradovate if the content holds
\* contract, b/s and qty, or buyprice, sellprice and boughttimestamp, before
\* any counting; otherwise the first of NinjaTrader (2 hits or more),
\* Tradovate (2), MetaTrader (3), Binance (2) whose count reaches its
\* threshold; otherwise Generic.
C17_ContentDetectionOrder ==
    (call # None /\ call[1].fn = "detect_broker_from_content") =>
        call[1].ret = C17_Claimed(Lower(call[1].arg))

\* The column named required is in the file under its canonical name or
\* under an alias that the mapping renames to it, whatever the case.
C18_Present(mapping, required, columns) ==
    \E p \in 1..Len(columns) :
        \/ Lower(Strip(columns[p])) = required
        \/ \E e \in 1..Len(mapping) :
              mapping[e][2] = required /\ Lower(Strip(columns[p])) = Lower(mapping[e][1])

\* C18 (as claimed): a file passes the required-column check when every
\* required column is present under its canonical name or under an alias of
\* COLUMN_MAPPING (stated for the parser that uses the check of the base
\* class); a file that any parser's check finds a required column missing in
\* fails as a whole: exactly one error, with row_number 0, no trades and
\* parsed_successfully = 0.
C18_RequiredColumns ==
    (result # None /\ ~result[1].raised) =>
        /\ (/\ parser[1].broker = "generic"
            /\ \A r \in 1..Len(Generic_REQUIRED_COLUMNS) :
                  C18_Present(Generic_COLUMN_MAPPING, Generic_REQUIRED_COLUMNS[r], file[1].columns)) =>
              \A k \in 1..Len(result[1].errors) : result[1].errors[k] # 0
        /\ (/\ ~(parser[1].broker = "tradovate" /\ _detect_format(file[1].columns) = "order_history")
            /\ _check_required_columns(parser[1], file[1].columns) # {}) =>
              /\ result[1].errors = <<0>>
              /\ result[1].trades = <<>>
              /\ result[1].parsed_successfully = 0

\* The cells of a data line that the row-level rules speak of, by the layout
\* of the file: instrument, size, price, entry time and exit time (NaN where
\* the layout has no such column).
C19_Cells(columns, row) ==
    IF columns \in {GenericColumns, AliasColumns}
    THEN [symbol |-> row[1], quantity |-> row[7], price |-> row[5], entry |-> row[3], exit |-> row[4]]
    ELSE IF columns = MTColumns
    THEN [symbol |-> row[5], quantity |-> row[4], price |-> row[6], entry |-> row[2], exit |-> row[7]]
    ELSE IF columns = NTColumns
    THEN [symbol |-> row[1], quantity |-> row[3], price |-> row[4], entry |-> row[6], exit |-> row[7]]
    ELSE [symbol |-> row[2], quantity |-> row[4], price |-> row[5], entry |-> row[1], exit |-> NaN]

\* A line that is not empty and has an empty symbol, a quantity of zero, a
\* price that is not positive, or an exit time before its entry time.
C19_FailsOn(row, c) ==
    /\ ~_is_empty_row(row)
    /\ \/ isna(c.symbol)
       \/ c.symbol.kind = "str" /\ Strip(c.symbol.s) = <<>>
       \/ c.quantity.kind = "num" /\ c.quantity.v = 0
       \/ c.price.kind = "num" /\ c.price.v <= 0
       \/ c.entry.kind = "time" /\ c.exit.kind = "time" /\ c.exit.v < c.entry.v

C19_Fails(columns, row) == C19_FailsOn(row, C19_Cells(columns, row))

\* C19 (as claimed): a parse of a file that passes the column check returns
\* to the caller; a row with an empty symbol, a zero quantity, a
\* non-positive price or an exit before its entry contributes exactly one
\* error, which carries its row number; and the trades are those of the
\* parse of the file without such rows.
C19_RowLevelRecovery ==
    (/\ result # None
     /\ Len(file[1].columns) = 7 \/ file[1].columns = MTColumns
     /\ _check_required_columns(parser[1], file[1].columns) = {}) =>
        /\ ~result[1].raised
        /\ \A i \in 1..Len(file[1].rows) :
              C19_Fails(file[1].columns, file[1].rows[i]) =>
                  Cardinality({k \in 1..Len(result[1].errors) : result[1].errors[k] = i + 1}) = 1
        /\ result[1].trades =
              _parse_dataframe(parser[1],
                  [columns |-> file[1].columns,
                   rows |-> Filter(file[1].rows, LAMBDA r : ~C19_Fails(file[1].columns, r))]).trades

\* C20 (as claimed): every trade of every returned result carries the
\* broker identifier of the parser as broker_name and the account hint given
\* to the parser as account_id, also the trades of a Tradovate order history
\* and those rebuilt by the Binance aggregation.
C20_BrokerTagging ==
    (result # None /\ ~result[1].raised) =>
        \A i \in 1..Len(result[1].trades) :
            /\ result[1].trades[i].broker_name = Some(parser[1].broker)
            /\ result[1].trades[i].account_id = parser[1].account_id

\* C21 (as claimed): every symbol normalizer is idempotent: normalizing the
\* result of a call once more gives the same result, for every input string,
\* in capitals, lower case or mixed case.
C21_NormalizationIdempotence ==
    (call # None /\ call[1].fn \in Normalizers) =>
        Normalized(call[1].fn, call[1].ret) = call[1].ret

\* C22 (as claimed): in every state of a trade that a parser created from a
\* tags cell and add_tag and remove_tag then changed, every tag is its own
\* lower-case form, no tag occurs twice, and right after remove_tag(t) the
\* normalized t is not among the tags.
C22_TagSet ==
    tagged # None =>
        /\ \A i \in 1..Len(tagged[1].tags) : tagged[1].tags[i] = Lower(tagged[1].tags[i])
        /\ \A i, j \in 1..Len(tagged[1].tags) : tagged[1].tags[i] = tagged[1].tags[j] => i = j
        /\ tagged[1].op = "remove_tag" => Lower(Strip(tagged[1].tag)) \notin Range(tagged[1].tags)

\* The text of a P&L cell without blanks around it, currency sigil and
\* thousands separators.
C23_Bare(cell) == Without(Strip(cell.s), {",", "$"})

\* The P&L value a cell carries as the specification reads numbers: a
\* number, a numeral with an optional minus sign, or a numeral in
\* parentheses, which is negative.
C23_Value(cell) ==
    IF cell.kind = "num" THEN Returned(cell.v)
    ELSE IF cell.kind # "str" THEN Raised
    ELSE IF Len(C23_Bare(cell)) > 2 /\ Head(C23_Bare(cell)) = "(" /\ C23_Bare(cell)[Len(C23_Bare(cell))] = ")"
    THEN Negated(ParseDigits(SubSeq(C23_Bare(cell), 2, Len(C23_Bare(cell)) - 1)))
    ELSE ParseFloat(C23_Bare(cell))

C23_Direction(row) == IF row[3].s = <<"B","u","y">> THEN "long" ELSE "short"

\* The result for a line whose P&L cell carries the value pnl: one closed
\* trade that exits at the line's price with the entry price solved from
\* pnl, or, when that entry price is not positive, no trade.
C23_Closed(row, pnl, ret) ==
    IF BackSolved(C23_Direction(row), row[5].v, pnl, row[4].v) <= 0 THEN Len(ret.trades) = 0
    ELSE /\ Len(ret.trades) = 1
         /\ ret.trades[1].status = "closed"
         /\ ret.trades[1].exit_price = Some(row[5].v)
         /\ ret.trades[1].entry_price = BackSolved(C23_Direction(row), row[5].v, pnl, row[4].v)

\* C23 (as claimed): a Trade Breakdown line that carries a P&L value, also
\* one in accounting parentheses or with a currency sigil, becomes a closed
\* trade whose exit_price is the line's price and whose entry_price is solved
\* from that P&L; a line becomes an open trade only when its P&L cell is
\* empty.
C23_BreakdownPnl ==
    (call # None /\ call[1].fn = "TradovateParser.parse_string") =>
        /\ C23_Value(call[1].arg[6]).ok =>
              C23_Closed(call[1].arg, C23_Value(call[1].arg[6]).v, call[1].ret)
        /\ \A i \in 1..Len(call[1].ret.trades) :
              call[1].ret.trades[i].status = "open" =>
                  (isna(call[1].arg[6]) \/ Strip(CellStr(call[1].arg[6])) = <<>>)

\* The calls that parse a one-line file of a broker that reports a P&L.
C27_Parsers ==
    {"InteractiveBrokersParser.parse_string", "BinanceParser.parse_string", "TradovateParser.parse_string"}

\* The direction the line states: its side text, else the sign of its size.
C27_Direction(row) ==
    IF isna(row[3]) THEN (IF row[4].v > 0 THEN "long" ELSE "short")
    ELSE IF Lower(row[3].s) = <<"b","u","y">> THEN "long" ELSE "short"

\* The line reports a P&L from which the parser solves the entry price, and
\* the P&L per unit is exact.
C27_Reported(fn, row) ==
    /\ row[6].kind = "num"
    /\ fn = "InteractiveBrokersParser.parse_string" => row[6].v # 0
    /\ row[6].v % Abs(row[4].v) = 0

\* C27: for a valid line of an Interactive Brokers, Binance or Tradovate
\* Trade Breakdown file that reports a P&L p with p / quantity exact, long
\* or short: when the back-solved entry price is positive the line yields
\* one trade whose pnl_gross is p; when it is not positive the line yields
\* no trade and one row error.
C27_BackSolveRoundTrip ==
    (call # None /\ call[1].fn \in C27_Parsers /\ C14_ValidRow(call[1].arg)
        /\ C27_Reported(call[1].fn, call[1].arg)) =>
        IF BackSolved(C27_Direction(call[1].arg), call[1].arg[5].v,
                      call[1].arg[6].v, Abs(call[1].arg[4].v)) <= 0
        THEN call[1].ret.trades = <<>> /\ call[1].ret.errors = <<2>>
        ELSE /\ Len(call[1].ret.trades) = 1
             /\ pnl_gross(call[1].ret.trades[1]) = Some(call[1].arg[6].v)

C25_Filtered(self, columns, row) ==
    \/ _is_empty_row(row)
    \/ _parse_row(self, _apply_column_mapping(COLUMN_MAPPING(self), columns), row).tag = "none"

\* The parse went through the row loop of BaseParser._parse_dataframe with
\* the frame as read.
C25_RowLoop ==
    /\ parser[1].broker # "interactive_brokers"
    /\ ~(parser[1].broker = "tradovate" /\ _detect_format(file[1].columns) = "order_history")

\* A line of an order history that is no trading row: its action is neither
\* a purchase nor a sale.
C25_NonTrading(columns, row) ==
    /\ columns = OrderColumns
    /\ ~Contains(Lower(CellStr(row[3])), <<"b","u","y">>)
    /\ ~Contains(Lower(CellStr(row[3])), <<"s","e","l","l">>)

\* C25 (as claimed): for every parse that passes the column check,
\* parsed_successfully + skipped_rows <= total_rows; every data line with
\* all cells empty or blank and every non-trading line is counted in
\* skipped_rows, and where the parser decides line by line skipped_rows is
\* exactly the number of lines it filtered; a line that failed with an error
\* is counted in neither counter.
C25_CounterAccounting ==
    (/\ result # None
     /\ ~result[1].raised
     /\ _check_required_columns(parser[1], file[1].columns) = {}) =>
        /\ result[1].parsed_successfully + result[1].skipped_rows <= result[1].total_rows
        /\ result[1].skipped_rows >=
              Cardinality({i \in 1..Len(file[1].rows) :
                              \/ _is_empty_row(file[1].rows[i])
                              \/ C25_NonTrading(file[1].columns, file[1].rows[i])})
        /\ C25_RowLoop =>
              result[1].skipped_rows =
                  Cardinality({i \in 1..Len(file[1].rows) :
                                  C25_Filtered(parser[1], file[1].columns, file[1].rows[i])})
        /\ result[1].parsed_successfully + result[1].skipped_rows + Len(result[1].errors)
              <= result[1].total_rows

\* C26 (as claimed): the hourly statistics have an entry for exactly the
\* hours in which a closed trade was entered, the trades count of an entry is
\* the number of closed trades entered in that hour, and the counts of all
\* entries sum to the number of closed trades.
C26_HourlyStats ==
    stats # None =>
        /\ {stats[1].hourly_stats[k].hour : k \in 1..Len(stats[1].hourly_stats)}
              = {hour(ClosedRows[i].entry_time) : i \in 1..Len(ClosedRows)}
        /\ \A k \in 1..Len(stats[1].hourly_stats) :
              stats[1].hourly_stats[k].trades =
                  Cardinality({i \in 1..Len(ClosedRows) :
                                  hour(ClosedRows[i].entry_time) = stats[1].hourly_stats[k].hour})
        /\ SumTo(stats[1].hourly_stats, LAMBDA e : e.trades, Len(stats[1].hourly_stats))
              = Len(ClosedRows)

\* C28: for every set of trades given to get_statistics, the cumulative_pnl
\* of the last entry of daily_pnl is the reported total_pnl, the trades_count
\* values of the daily series sum to the number of closed trades, and each
\* day's winners + losers is its trades_count.
C28_DailyTotals ==
    stats # None =>
        LET s == stats[1].daily_pnl
        IN /\ s # <<>> => s[Len(s)].cumulative_pnl = stats[1].total_pnl
           /\ SumTo(s, LAMBDA e : e.trades_count, Len(s)) = Len(ClosedRows)
           /\ \A n \in 1..Len(s) : s[n].winners + s[n].losers = s[n].trades_count

\* The closed trade t was built from two different accepted fills of its
\* (symbol, direction) group: it enters at the one, exits at the other, and
\* its commission is the sum of their commissions.
C29_FromTwoFills(t, accepted) ==
    \E g \in 1..Len(accepted) :
        /\ accepted[g].key = <<t.symbol, t.direction>>
        /\ \E a, b \in 1..Len(accepted[g].fills) :
              /\ a # b
              /\ t.entry_time = accepted[g].fills[a].time
              /\ t.entry_price = accepted[g].fills[a].price
              /\ t.exit_time = Some(accepted[g].fills[b].time)
              /\ t.exit_price = Some(accepted[g].fills[b].price)
              /\ t.commission = accepted[g].fills[a].commission + accepted[g].fills[b].commission

\* C29: every closed trade of a Tradovate order history parse has exit_time
\* >= entry_time, whatever the order in which the fills arrive in the file,
\* and its commission is the sum of the commissions of the two fills it was
\* paired from.
C29_PairingTimeOrder ==
    (/\ result # None
     /\ parser[1].broker = "tradovate"
     /\ _detect_format(file[1].columns) = "order_history"
     /\ ~result[1].raised) =>
        LET accepted == AcceptedFills
        IN \A i \in 1..Len(result[1].trades) :
               result[1].trades[i].status = "closed" =>
                   /\ result[1].trades[i].exit_time # None
                   /\ result[1].trades[i].exit_time[1] >= result[1].trades[i].entry_time
                   /\ C29_FromTwoFills(result[1].trades[i], accepted)

\* C29 witness: two fills of one group arrived later one first, each with a
\* commission, and were paired into a closed trade that enters at the
\* earlier and carries both commissions.
C29_Witness ==
    /\ result # None
    /\ parser[1].broker = "tradovate"
    /\ _detect_format(file[1].columns) = "order_history"
    /\ Len(file[1].rows) = 2
    /\ file[1].rows[1][1] = Time(At(0, 11, 0, 0))
    /\ file[1].rows[2][1] = Time(At(0, 10, 0, 0))
    /\ ~result[1].raised
    /\ Len(result[1].trades) = 1
    /\ result[1].trades[1].status = "closed"
    /\ result[1].trades[1].entry_time = At(0, 10, 0, 0)
    /\ result[1].trades[1].exit_time = Some(At(0, 11, 0, 0))
    /\ result[1].trades[1].commission = 2

\* C30: the aggregator applied to its own output returns the same trades in
\* the same order (same count, keys, quantities, entry prices, entry times
\* and commissions), the output holding one trade per (symbol, direction,
\* minute) key.
C30_AggregationIdempotence ==
    aggregated # None =>
        /\ \A i, j \in 1..Len(aggregated[1]) :
              AggKey(aggregated[1][i]) = AggKey(aggregated[1][j]) => i = j
        /\ _aggregate_fills(aggregated[1]) = aggregated[1]

\* C30 witness: three fills of two keys in one minute were aggregated, two of
\* them merged into a trade of a changed quantity, and the output has two
\* trades.
C30_Witness ==
    /\ aggregated # None
    /\ Len(fills) = 3
    /\ Len(aggregated[1]) = 2
    /\ AggKey(aggregated[1][1])[3] = AggKey(aggregated[1][2])[3]
    /\ \E k \in 1..2 : \A i \in 1..3 : aggregated[1][k].quantity > fills[i].quantity
====
